---- MODULE Spec2Model ----
(***************************************************************************)
(* A model of the ARI cluster engine of AriBrain/ari-core:                 *)
(*   - the cluster forest builder (findClusters, UnionBySize, descendants) *)
(*   - the Hommel core (findConcentration, getCategory, findDiscoveries)   *)
(*   - the TDP propagator (heavyPathTDP, forestTDP)                        *)
(*   - the query engine (queryPreparation, findLeft, answerQuery,          *)
(*     answerQueryBatch)                                                   *)
(*                                                                         *)
(* C++ vectors indexed from 0 that have a fixed length (PARENT, SIZE, TDP, *)
(* MARK, ...) are functions over 0..n-1; vectors that grow (CHD, ROOT,     *)
(* ADMSTC, DESC, ANS) are sequences, and At(vec, i) reads vec[i] of the    *)
(* source.  A double that is a quotient of small integers (a TDP, a gamma) *)
(* is the integer  value * Scale ; a p-value, alpha and simesh are exact   *)
(* rationals with the denominators named below.                            *)
(***************************************************************************)
EXTENDS Integers, Sequences, FiniteSets, TLC

VARIABLES pc, m, ADJ, ORD, RANK, P, hom, SIZE, ROOT, CHILD, TDP, ADMSTC, MARK, ANS, args, ret

vars == <<pc, m, ADJ, ORD, RANK, P, hom, SIZE, ROOT, CHILD, TDP, ADMSTC, MARK, ANS, args, ret>>

\* ---------------------------------------------------------------- bounds
\* Largest number of voxels of a mask in the forest specification.
MaxN == 4

\* Largest number of voxels of a mask in the engine specification.
MaxM == 3

\* Longest list ADMSTC in the findLeft specification.
MaxL == 5

\* Largest number of p-values in the findalpha and findHalpha specifications.
MaxJ == 4

\* A value of a variable that the current specification does not use.
Nil == <<>>

\* The value of args before any call.
NoArgs == [op |-> "none"]

\* ---------------------------------------------------------------- vectors
At(vec, i) == vec[i + 1]

InBounds(vec, i) == i >= 0 /\ i < Len(vec)

Range(vec) == {vec[i] : i \in 1..Len(vec)}

Min(a, b) == IF a < b THEN a ELSE b

Max(a, b) == IF a > b THEN a ELSE b

\* The elements of a finite set of integers in ascending order.
RECURSIVE Ascending(_)
Ascending(S) ==
    IF S = {} THEN <<>>
    ELSE LET lo == CHOOSE x \in S : \A y \in S : x <= y
         IN <<lo>> \o Ascending(S \ {lo})

Reverse(s) == [i \in 1..Len(s) |-> s[Len(s) + 1 - i]]

\* ---------------------------------------------------------------- disjoint sets
\* Find with path halving; returns the representative and the rewritten parent.
RECURSIVE Find(_, _)
Find(x, parent) ==
    IF parent[x] # x
    THEN LET p1 == [parent EXCEPT ![x] = parent[parent[x]]]
         IN Find(p1[x], p1)
    ELSE [rep |-> x, parent |-> parent]

\* UnionBySize without the hand-over of the forest root to the new representative.
UnionBySize_KeepRoot(i, j, st) ==
    LET fi == Find(i, st.PARENT)
        fj == Find(j, fi.parent)
        irep == fi.rep
        jrep == fj.rep
        par == fj.parent
        iroot == st.FORESTROOT[irep]
        jroot == st.FORESTROOT[jrep]
    IN IF irep = jrep THEN [st EXCEPT !.PARENT = par]
       ELSE IF st.SIZE[iroot] < st.SIZE[jroot]
            THEN [PARENT |-> [par EXCEPT ![irep] = jrep],
                  FORESTROOT |-> st.FORESTROOT,
                  SIZE |-> [st.SIZE EXCEPT ![iroot] = @ + st.SIZE[jroot]]]
            ELSE [PARENT |-> [par EXCEPT ![jrep] = irep],
                  FORESTROOT |-> st.FORESTROOT,
                  SIZE |-> [st.SIZE EXCEPT ![iroot] = @ + st.SIZE[jroot]]]

\* The union that keeps the forest root of the larger side and counts the size there.
UnionBySize_LargerRoot(i, j, st) ==
    LET fi == Find(i, st.PARENT)
        fj == Find(j, fi.parent)
        irep == fi.rep
        jrep == fj.rep
        par == fj.parent
        iroot == st.FORESTROOT[irep]
        jroot == st.FORESTROOT[jrep]
    IN IF irep = jrep THEN [st EXCEPT !.PARENT = par]
       ELSE IF st.SIZE[iroot] < st.SIZE[jroot]
            THEN [PARENT |-> [par EXCEPT ![irep] = jrep],
                  FORESTROOT |-> st.FORESTROOT,
                  SIZE |-> [st.SIZE EXCEPT ![jroot] = @ + st.SIZE[iroot]]]
            ELSE [PARENT |-> [par EXCEPT ![jrep] = irep],
                  FORESTROOT |-> st.FORESTROOT,
                  SIZE |-> [st.SIZE EXCEPT ![iroot] = @ + st.SIZE[jroot]]]

\* The union that adds the size at the representative of i, not at its forest root.
UnionBySize_RepSize(i, j, st) ==
    LET fi == Find(i, st.PARENT)
        fj == Find(j, fi.parent)
        irep == fi.rep
        jrep == fj.rep
        par == fj.parent
        iroot == st.FORESTROOT[irep]
        jroot == st.FORESTROOT[jrep]
    IN IF irep = jrep THEN [st EXCEPT !.PARENT = par]
       ELSE IF st.SIZE[iroot] < st.SIZE[jroot]
            THEN [PARENT |-> [par EXCEPT ![irep] = jrep],
                  FORESTROOT |-> [st.FORESTROOT EXCEPT ![jrep] = iroot],
                  SIZE |-> [st.SIZE EXCEPT ![irep] = @ + st.SIZE[jroot]]]
            ELSE [PARENT |-> [par EXCEPT ![jrep] = irep],
                  FORESTROOT |-> st.FORESTROOT,
                  SIZE |-> [st.SIZE EXCEPT ![irep] = @ + st.SIZE[jroot]]]

\* st = [PARENT, FORESTROOT, SIZE]
UnionBySize(i, j, st) ==
    LET fi == Find(i, st.PARENT)
        fj == Find(j, fi.parent)
        irep == fi.rep
        jrep == fj.rep
        par == fj.parent
        iroot == st.FORESTROOT[irep]
        jroot == st.FORESTROOT[jrep]
    IN IF irep = jrep THEN [st EXCEPT !.PARENT = par]
       ELSE IF st.SIZE[iroot] < st.SIZE[jroot]
            THEN [PARENT |-> [par EXCEPT ![irep] = jrep],
                  FORESTROOT |-> [st.FORESTROOT EXCEPT ![jrep] = iroot],
                  SIZE |-> [st.SIZE EXCEPT ![iroot] = @ + st.SIZE[jroot]]]
            ELSE [PARENT |-> [par EXCEPT ![jrep] = irep],
                  FORESTROOT |-> st.FORESTROOT,
                  SIZE |-> [st.SIZE EXCEPT ![iroot] = @ + st.SIZE[jroot]]]

\* ---------------------------------------------------------------- findClusters
\* The loop that puts a child in front as soon as it is as large as the first one.
RECURSIVE NeighbourLoop_TieFront(_, _, _, _, _)
NeighbourLoop_TieFront(j, IDS, v, i, c) ==
    IF j >= Len(IDS) THEN c
    ELSE IF c.rank[At(IDS, j)] < i + 1
         THEN LET f == Find(At(IDS, j), c.st.PARENT)
                  jrep == f.rep
                  st1 == [c.st EXCEPT !.PARENT = f.parent]
                  w == st1.FORESTROOT[jrep]
              IN IF v # w
                 THEN LET st2 == UnionBySize(v, jrep, st1)
                          chd == IF c.CHD = <<>> \/ st2.SIZE[Head(c.CHD)] > st2.SIZE[w]
                                 THEN Append(c.CHD, w)
                                 ELSE <<w>> \o c.CHD
                      IN NeighbourLoop_TieFront(j + 1, IDS, v, i, [c EXCEPT !.st = st2, !.CHD = chd])
                 ELSE NeighbourLoop_TieFront(j + 1, IDS, v, i, [c EXCEPT !.st = st1])
         ELSE NeighbourLoop_TieFront(j + 1, IDS, v, i, c)

\* The loop over the neighbours IDS[j..] of v = ORD[i]; c = [st, CHD].
RECURSIVE NeighbourLoop(_, _, _, _, _)
NeighbourLoop(j, IDS, v, i, c) ==
    IF j >= Len(IDS) THEN c
    ELSE IF c.rank[At(IDS, j)] < i + 1
         THEN LET f == Find(At(IDS, j), c.st.PARENT)
                  jrep == f.rep
                  st1 == [c.st EXCEPT !.PARENT = f.parent]
                  w == st1.FORESTROOT[jrep]
              IN IF v # w
                 THEN LET st2 == UnionBySize(v, jrep, st1)
                          chd == IF c.CHD = <<>> \/ st2.SIZE[Head(c.CHD)] >= st2.SIZE[w]
                                 THEN Append(c.CHD, w)
                                 ELSE <<w>> \o c.CHD
                      IN NeighbourLoop(j + 1, IDS, v, i, [c EXCEPT !.st = st2, !.CHD = chd])
                 ELSE NeighbourLoop(j + 1, IDS, v, i, [c EXCEPT !.st = st1])
         ELSE NeighbourLoop(j + 1, IDS, v, i, c)

\* The loop over the voxels in ascending order of p-value; f = [st, CHILD].
RECURSIVE VoxelLoop(_, _, _, _, _, _)
VoxelLoop(i, n, adj, ord, rank, f) ==
    IF i >= n THEN f
    ELSE LET v == ord[i]
             c == NeighbourLoop(0, adj[v], v, i, [st |-> f.st, CHD |-> <<>>, rank |-> rank])
         IN VoxelLoop(i + 1, n, adj, ord, rank,
                      [st |-> c.st, CHILD |-> [f.CHILD EXCEPT ![v] = c.CHD]])

RECURSIVE RootLoop(_, _, _, _)
RootLoop(i, n, st, roots) ==
    IF i >= n THEN roots
    ELSE RootLoop(i + 1, n, st,
                  IF st.PARENT[i] = i THEN Append(roots, st.FORESTROOT[i]) ELSE roots)

\* Returns [SIZE, ROOT, CHILD].
findClusters(n, adj, ord, rank) ==
    LET st0 == [PARENT |-> [i \in 0..n-1 |-> i],
                FORESTROOT |-> [i \in 0..n-1 |-> i],
                SIZE |-> [i \in 0..n-1 |-> 1]]
        f == VoxelLoop(0, n, adj, ord, rank, [st |-> st0, CHILD |-> [i \in 0..n-1 |-> <<>>]])
    IN [SIZE |-> f.st.SIZE, ROOT |-> RootLoop(0, n, f.st, <<>>), CHILD |-> f.CHILD]

\* ---------------------------------------------------------------- descendants
\* ~v of the source (two's complement): the mark of a stack entry that is a value.
BitNot(v) == -v - 1

\* The buffer DESC holds the output in DESC[0..len-1] and the stack in DESC[top..];
\* d = [DESC, len, top, oob], oob records a write outside the buffer.
Put(d, i, x) ==
    IF i \in DOMAIN d.DESC THEN [d EXCEPT !.DESC[i] = x] ELSE [d EXCEPT !.oob = TRUE]

\* The push of the children that leaves the last child, not the first, on top of the stack.
RECURSIVE PushChildren_LastOnTop(_, _, _)
PushChildren_LastOnTop(j, CHD, d) ==
    IF j < 0 THEN d
    ELSE PushChildren_LastOnTop(j - 1, CHD,
             Put([d EXCEPT !.top = @ - 1], d.top - 1, At(CHD, Len(CHD) - 1 - j)))

RECURSIVE PushChildren(_, _, _)
PushChildren(j, CHD, d) ==
    IF j < 0 THEN d
    ELSE PushChildren(j - 1, CHD, Put([d EXCEPT !.top = @ - 1], d.top - 1, At(CHD, j)))

RECURSIVE DescLoop(_, _, _)
DescLoop(d, n, child) ==
    IF ~(d.top < n) \/ d.oob THEN d
    ELSE LET v == d.DESC[d.top]
         IN IF v < 0
            THEN DescLoop([Put(d, d.len, BitNot(v)) EXCEPT !.len = d.len + 1, !.top = d.top + 1],
                          n, child)
            ELSE DescLoop(PushChildren(Len(child[v]) - 1, child[v], Put(d, d.top, BitNot(v))),
                          n, child)

\* Returns [DESC, len, top, oob]; DESC is a function over 0..SIZE[v]-1.
descendantsRun(v, size, child) ==
    LET n == size[v]
        d0 == [DESC |-> [i \in 0..n-1 |-> IF i = n - 1 THEN v ELSE 0],
               len |-> 0, top |-> n - 1, oob |-> FALSE]
    IN DescLoop(d0, n, child)

\* The returned vector, as a sequence.
descendants(v, size, child) ==
    LET d == descendantsRun(v, size, child)
    IN [i \in 1..size[v] |-> d.DESC[i - 1]]

\* ---------------------------------------------------------------- Hommel core (zero-based)
\* A p-value is P[i] / PDen and alpha is alphaN / PDen for one common denominator,
\* simesh is sN / sD; hp = [h, alphaN, sN, sD].
CeilDiv(a, b) == (a + b - 1) \div b

getCategory(p, hp, n) ==
    IF p = 0 \/ hp.sN = 0 THEN 0
    ELSE IF hp.alphaN = 0 THEN n
    ELSE CeilDiv(hp.sN * p, hp.sD * hp.alphaN) - 1

RECURSIVE ConcLoop(_, _, _, _)
ConcLoop(z, allp, hp, n) ==
    IF z < n - 1 /\ hp.sN * allp[z] > (z - n + hp.h + 2) * hp.alphaN * hp.sD
    THEN ConcLoop(z + 1, allp, hp, n)
    ELSE z

findConcentration(allp, hp, n) ==
    LET z == n - hp.h - 1
    IN IF z >= 0 THEN ConcLoop(z, allp, hp, n) ELSE z

\* Union of the rank-based disjoint sets with the lowest member tracked at the root;
\* u = [parent, lowest, rank].
Union(x, y, u) ==
    LET fx == Find(x, u.parent)
        fy == Find(y, fx.parent)
        xRoot == fx.rep
        yRoot == fy.rep
        u1 == [u EXCEPT !.parent = fy.parent]
        low == Min(u.lowest[xRoot], u.lowest[yRoot])
    IN IF xRoot = yRoot THEN u1
       ELSE IF u.rank[xRoot] < u.rank[yRoot]
            THEN [u1 EXCEPT !.parent[xRoot] = yRoot, !.lowest[yRoot] = low]
       ELSE IF u.rank[xRoot] > u.rank[yRoot]
            THEN [u1 EXCEPT !.parent[yRoot] = xRoot, !.lowest[xRoot] = low]
       ELSE [u1 EXCEPT !.parent[yRoot] = xRoot, !.rank[xRoot] = @ + 1, !.lowest[xRoot] = low]

\* The scan from the right for the largest category, stopped once it reaches maxcat.
RECURSIVE MaxCatLoop(_, _, _, _)
MaxCatLoop(i, cats, maxcatI, maxcat) ==
    IF i < 0 THEN maxcatI
    ELSE IF At(cats, i) > maxcatI
         THEN IF At(cats, i) >= maxcat THEN At(cats, i)
              ELSE MaxCatLoop(i - 1, cats, At(cats, i), maxcat)
         ELSE MaxCatLoop(i - 1, cats, maxcatI, maxcat)

\* The variant that bounds the categories by k alone, without the concentration z.
tightenedMaxCat_SizeOnly(cats, allp, hp, k, n) ==
    Min(k, MaxCatLoop(k - 1, cats, 0, k))

tightenedMaxCat(cats, allp, hp, k, n) ==
    LET z == findConcentration(allp, hp, n)
        maxcat == Min(z - n + hp.h, k)
    IN Min(maxcat, MaxCatLoop(k - 1, cats, 0, maxcat))

\* "The algorithm proper"; u = [parent, lowest, rank], disc the vector built so far.
\* The variant that adds a discovery also when the category was merged.
DiscStep_Double(i, cats, maxcat, c) ==
    LET prev == IF i = 0 THEN 0 ELSE c.disc[i]
    IN IF At(cats, i) <= maxcat
       THEN LET f == Find(At(cats, i), c.u.parent)
                u1 == [c.u EXCEPT !.parent = f.parent]
                lowestInPi == u1.lowest[f.rep]
            IN IF lowestInPi = 0
               THEN [u |-> u1, disc |-> Append(c.disc, prev + 2)]
               ELSE [u |-> Union(lowestInPi - 1, f.rep, u1), disc |-> Append(c.disc, prev)]
       ELSE [u |-> c.u, disc |-> Append(c.disc, prev)]

\* The variant that leaves out the entries whose category equals maxcat.
DiscStep_StrictBound(i, cats, maxcat, c) ==
    LET prev == IF i = 0 THEN 0 ELSE c.disc[i]
    IN IF At(cats, i) < maxcat
       THEN LET f == Find(At(cats, i), c.u.parent)
                u1 == [c.u EXCEPT !.parent = f.parent]
                lowestInPi == u1.lowest[f.rep]
            IN IF lowestInPi = 0
               THEN [u |-> u1, disc |-> Append(c.disc, prev + 1)]
               ELSE [u |-> Union(lowestInPi - 1, f.rep, u1), disc |-> Append(c.disc, prev)]
       ELSE [u |-> c.u, disc |-> Append(c.disc, prev)]

DiscStep(i, cats, maxcat, c) ==
    LET prev == IF i = 0 THEN 0 ELSE c.disc[i]
    IN IF At(cats, i) <= maxcat
       THEN LET f == Find(At(cats, i), c.u.parent)
                u1 == [c.u EXCEPT !.parent = f.parent]
                lowestInPi == u1.lowest[f.rep]
            IN IF lowestInPi = 0
               THEN [u |-> u1, disc |-> Append(c.disc, prev + 1)]
               ELSE [u |-> Union(lowestInPi - 1, f.rep, u1), disc |-> Append(c.disc, prev)]
       ELSE [u |-> c.u, disc |-> Append(c.disc, prev)]

RECURSIVE DiscLoop(_, _, _, _, _)
DiscLoop(i, k, cats, maxcat, c) ==
    IF i >= k THEN c.disc
    ELSE DiscLoop(i + 1, k, cats, maxcat, DiscStep(i, cats, maxcat, c))

\* Returns the vector of discoveries, of length k.
findDiscoveries(idx, allp, hp, k, n) ==
    LET cats == [i \in 1..k |-> getCategory(allp[idx[i]], hp, n)]
        maxcat == tightenedMaxCat(cats, allp, hp, k, n)
        u0 == [parent |-> [i \in 0..maxcat |-> i],
               lowest |-> [i \in 0..maxcat |-> i],
               rank |-> [i \in 0..maxcat |-> 0]]
    IN DiscLoop(0, k, cats, maxcat, [u |-> u0, disc |-> <<>>])

\* ---------------------------------------------------------------- TDP propagator
RECURSIVE Factorial(_)
Factorial(n) == IF n <= 1 THEN 1 ELSE n * Factorial(n - 1)

\* The double NUM / SIZE is the integer NUM * Scale \div SIZE: every subtree size
\* divides Scale, so the quotient is exact and -1 is -Scale.
Scale == Factorial(MaxM)

Invalid == -Scale

\* NUM[i] of the source: the element when i is inside the vector, and otherwise
\* whatever the read past its end finds (oob).
ReadNUM(NUM, i, oob) == IF InBounds(NUM, i) THEN At(NUM, i) ELSE oob

\* The walk down the heavy path from v; f = [SIZE, ROOT, CHILD].
RECURSIVE HeavyWalk(_, _, _, _, _, _, _)
HeavyWalk(v, par, NUM, oob, p, f, tdp) ==
    LET t == IF par = -1 \/ p[v] # p[par]
             THEN (ReadNUM(NUM, f.SIZE[v], oob) * Scale) \div f.SIZE[v]
             ELSE Invalid
        tdp1 == [tdp EXCEPT ![v] = t]
    IN IF f.SIZE[v] = 1 \/ f.CHILD[v] = <<>> THEN tdp1
       ELSE HeavyWalk(At(f.CHILD[v], 0), v, NUM, oob, p, f, tdp1)

\* oob is the value that a read of NUM past its end yields in this call.
heavyPathTDP(v, par, n, hp, p, f, tdp, oob) ==
    LET HP == descendants(v, f.SIZE, f.CHILD)
        NUM == findDiscoveries(HP, p, hp, Len(HP), n)
    IN HeavyWalk(v, par, NUM, oob, p, f, tdp)

\* The assignments "TDP[v] = ..." of the walk down the heavy path from v, counted:
\* w[u] is the number of times TDP[u] has been assigned.
RECURSIVE HeavyWalkWrites(_, _, _)
HeavyWalkWrites(v, f, w) ==
    LET w1 == [w EXCEPT ![v] = @ + 1]
    IN IF f.SIZE[v] = 1 \/ f.CHILD[v] = <<>> THEN w1
       ELSE HeavyWalkWrites(At(f.CHILD[v], 0), f, w1)

\* c = [tdp, garb, writes].
RECURSIVE TDPRootLoop(_, _, _, _, _, _)
TDPRootLoop(i, n, hp, p, f, c) ==
    IF i >= Len(f.ROOT) THEN c
    ELSE TDPRootLoop(i + 1, n, hp, p, f,
             [c EXCEPT !.tdp = heavyPathTDP(At(f.ROOT, i), -1, n, hp, p, f, c.tdp,
                                            c.garb[At(f.ROOT, i)]),
                       !.writes = HeavyWalkWrites(At(f.ROOT, i), f, c.writes)])

\* The loop over the children that starts a walk at the first child as well.
RECURSIVE TDPChildLoop_AllChildren(_, _, _, _, _, _, _)
TDPChildLoop_AllChildren(i, j, n, hp, p, f, c) ==
    IF i >= n THEN c
    ELSE IF j >= Len(f.CHILD[i]) THEN TDPChildLoop_AllChildren(i + 1, 0, n, hp, p, f, c)
    ELSE TDPChildLoop_AllChildren(i, j + 1, n, hp, p, f,
             [c EXCEPT !.tdp = heavyPathTDP(At(f.CHILD[i], j), i, n, hp, p, f, c.tdp,
                                            c.garb[At(f.CHILD[i], j)]),
                       !.writes = HeavyWalkWrites(At(f.CHILD[i], j), f, c.writes)])

RECURSIVE TDPChildLoop(_, _, _, _, _, _, _)
TDPChildLoop(i, j, n, hp, p, f, c) ==
    IF i >= n THEN c
    ELSE IF j >= Len(f.CHILD[i]) THEN TDPChildLoop(i + 1, 1, n, hp, p, f, c)
    ELSE TDPChildLoop(i, j + 1, n, hp, p, f,
             [c EXCEPT !.tdp = heavyPathTDP(At(f.CHILD[i], j), i, n, hp, p, f, c.tdp,
                                            c.garb[At(f.CHILD[i], j)]),
                       !.writes = HeavyWalkWrites(At(f.CHILD[i], j), f, c.writes)])

\* garb[s] is what the call of heavyPathTDP that starts at s reads past the end of NUM.
\* Returns [tdp, garb, writes].
forestTDPRun(n, hp, p, f, garb) ==
    LET c0 == [tdp |-> [v \in 0..n-1 |-> 0], garb |-> garb, writes |-> [v \in 0..n-1 |-> 0]]
        c1 == TDPRootLoop(0, n, hp, p, f, c0)
    IN TDPChildLoop(0, 1, n, hp, p, f, c1)

\* The returned vector TDP.
forestTDP(n, hp, p, f, garb) == forestTDPRun(n, hp, p, f, garb).tdp

\* ---------------------------------------------------------------- query engine
\* The walk that hands each child the bound of its parent, not the larger of that
\* bound and the parent's TDP.
RECURSIVE PrepStack_ParentBound(_, _, _, _)
PrepStack_ParentBound(stack, adm, tdp, child) ==
    IF stack = <<>> THEN adm
    ELSE LET top == stack[Len(stack)]
             v == top[1]
             q == top[2]
             rest == SubSeq(stack, 1, Len(stack) - 1)
             pushed == [j \in 1..Len(child[v]) |-> <<child[v][j], q>>]
         IN PrepStack_ParentBound(rest \o pushed, IF tdp[v] > q THEN Append(adm, v) ELSE adm,
                                  tdp, child)

\* The walk of queryPreparation with its explicit stack of (v, q) pairs.
RECURSIVE PrepStack(_, _, _, _)
PrepStack(stack, adm, tdp, child) ==
    IF stack = <<>> THEN adm
    ELSE LET top == stack[Len(stack)]
             v == top[1]
             q == top[2]
             rest == SubSeq(stack, 1, Len(stack) - 1)
             pushed == [j \in 1..Len(child[v]) |-> <<child[v][j], Max(tdp[v], q)>>]
         IN PrepStack(rest \o pushed, IF tdp[v] > q THEN Append(adm, v) ELSE adm, tdp, child)

RECURSIVE PrepRoots(_, _, _, _, _)
PrepRoots(i, root, adm, tdp, child) ==
    IF i >= Len(root) THEN adm
    ELSE PrepRoots(i + 1, root, PrepStack(<<<<At(root, i), Invalid>>>>, adm, tdp, child), tdp, child)

\* The admissible nodes in the order in which the walk meets them.
admissibleWalk(root, tdp, child) == PrepRoots(0, root, <<>>, tdp, child)

IsSortedBy(s, val) == \A i \in 1..Len(s) - 1 : val[s[i]] <= val[s[i + 1]]

\* std::sort with compareBy(TDP): any arrangement of s that is ordered by val; the
\* order of entries with equal val is the library's choice.
SortOutcomes(s, val) ==
    {t \in [1..Len(s) -> Range(s)] : Range(t) = Range(s) /\ IsSortedBy(t, val)}

\* The set of lists queryPreparation can return.
queryPreparation(root, tdp, child) == SortOutcomes(admissibleWalk(root, tdp, child), tdp)

\* The search whose binary half compares the wrong way round.
RECURSIVE LeftLoop_Inverted(_, _, _, _, _, _)
LeftLoop_Inverted(low, high, right, gamma, adm, tdp) ==
    IF ~(low < high) THEN [ret |-> low, oob |-> FALSE, by |-> "binary"]
    ELSE LET mid == (low + high) \div 2
             ge == tdp[At(adm, mid)] < gamma
             high1 == IF ge THEN mid ELSE high
             low1 == IF ge THEN low ELSE mid + 1
             right1 == right - 1
         IN IF ~InBounds(adm, right1) THEN [ret |-> -1, oob |-> TRUE, by |-> "linear"]
            ELSE IF tdp[At(adm, right1)] < gamma
                 THEN [ret |-> right1 + 1, oob |-> FALSE, by |-> "linear"]
            ELSE LeftLoop_Inverted(low1, high1, right1, gamma, adm, tdp)

\* The search whose linear probe returns the index it stopped at.
RECURSIVE LeftLoop_ProbeIndex(_, _, _, _, _, _)
LeftLoop_ProbeIndex(low, high, right, gamma, adm, tdp) ==
    IF ~(low < high) THEN [ret |-> low, oob |-> FALSE, by |-> "binary"]
    ELSE LET mid == (low + high) \div 2
             ge == tdp[At(adm, mid)] >= gamma
             high1 == IF ge THEN mid ELSE high
             low1 == IF ge THEN low ELSE mid + 1
             right1 == right - 1
         IN IF ~InBounds(adm, right1) THEN [ret |-> -1, oob |-> TRUE, by |-> "linear"]
            ELSE IF tdp[At(adm, right1)] < gamma
                 THEN [ret |-> right1, oob |-> FALSE, by |-> "linear"]
            ELSE LeftLoop_ProbeIndex(low1, high1, right1, gamma, adm, tdp)

\* findLeft; returns [ret, oob, by]: oob is set when ADMSTC is read at an index outside
\* it, by names the search that ended the loop.
RECURSIVE LeftLoop(_, _, _, _, _, _)
LeftLoop(low, high, right, gamma, adm, tdp) ==
    IF ~(low < high) THEN [ret |-> low, oob |-> FALSE, by |-> "binary"]
    ELSE LET mid == (low + high) \div 2
             ge == tdp[At(adm, mid)] >= gamma
             high1 == IF ge THEN mid ELSE high
             low1 == IF ge THEN low ELSE mid + 1
             right1 == right - 1
         IN IF ~InBounds(adm, right1) THEN [ret |-> -1, oob |-> TRUE, by |-> "linear"]
            ELSE IF tdp[At(adm, right1)] < gamma
                 THEN [ret |-> right1 + 1, oob |-> FALSE, by |-> "linear"]
            ELSE LeftLoop(low1, high1, right1, gamma, adm, tdp)

findLeftRun(gamma, adm, tdp) == LeftLoop(0, Len(adm), Len(adm), gamma, adm, tdp)

findLeft(gamma, adm, tdp) == findLeftRun(gamma, adm, tdp).ret

MarkAll(mark, clus, x) == [v \in DOMAIN mark |-> IF v \in Range(clus) THEN x ELSE mark[v]]

\* The loop that emits a cluster for every entry, marked or not.
RECURSIVE EmitLoop_NoMark(_, _, _, _, _)
EmitLoop_NoMark(i, adm, size, child, c) ==
    IF i >= Len(adm) THEN c
    ELSE LET DESC == descendants(At(adm, i), size, child)
         IN EmitLoop_NoMark(i + 1, adm, size, child,
                            [ANS |-> Append(c.ANS, DESC), MARK |-> MarkAll(c.MARK, DESC, 1)])

\* The loop of answerQuery over ADMSTC[i..]; c = [ANS, MARK].
RECURSIVE EmitLoop(_, _, _, _, _)
EmitLoop(i, adm, size, child, c) ==
    IF i >= Len(adm) THEN c
    ELSE IF c.MARK[At(adm, i)] = 0
         THEN LET DESC == descendants(At(adm, i), size, child)
              IN EmitLoop(i + 1, adm, size, child,
                          [ANS |-> Append(c.ANS, DESC), MARK |-> MarkAll(c.MARK, DESC, 1)])
         ELSE EmitLoop(i + 1, adm, size, child, c)

\* The loop that clears the mark of the representative of each cluster only.
RECURSIVE ClearLoop_RepOnly(_, _, _)
ClearLoop_RepOnly(i, ans, mark) ==
    IF i > Len(ans) THEN mark
    ELSE ClearLoop_RepOnly(i + 1, ans, MarkAll(mark, <<ans[i][Len(ans[i])]>>, 0))

\* The loop of answerQuery that clears the marks of the clusters it returned.
RECURSIVE ClearLoop(_, _, _)
ClearLoop(i, ans, mark) ==
    IF i > Len(ans) THEN mark
    ELSE ClearLoop(i + 1, ans, MarkAll(mark, ans[i], 0))

\* Returns [ANS, MARK]: the clusters and the marks left behind.
answerQuery(gamma, adm, size, mark, tdp, child) ==
    LET g == IF gamma < 0 THEN 0 ELSE gamma
        left == findLeft(g, adm, tdp)
        c == EmitLoop(left, adm, size, child, [ANS |-> <<>>, MARK |-> mark])
    IN [ANS |-> c.ANS, MARK |-> ClearLoop(1, c.ANS, c.MARK)]

\* The loop of answerQueryBatch; c = [results, MARK, marks], marks[i] is MARK
\* when the i-th gamma has been processed.
RECURSIVE BatchLoop(_, _, _, _, _, _, _)
BatchLoop(i, batch, adm, size, tdp, child, c) ==
    IF i > Len(batch) THEN c
    ELSE LET g == IF batch[i] < 0 THEN 0 ELSE batch[i]
             left == findLeft(g, adm, tdp)
             e == EmitLoop(left, adm, size, child, [ANS |-> <<>>, MARK |-> c.MARK])
             mk == ClearLoop(1, e.ANS, e.MARK)
         IN BatchLoop(i + 1, batch, adm, size, tdp, child,
                      [results |-> Append(c.results, e.ANS), MARK |-> mk,
                       marks |-> Append(c.marks, mk)])

answerQueryBatch(batch, adm, size, mark, tdp, child) ==
    BatchLoop(1, batch, adm, size, tdp, child, [results |-> <<>>, MARK |-> mark, marks |-> <<>>])

\* ---------------------------------------------------------------- forest relations
Nodes == 0..m-1

\* The nodes of the subtree of v, following CHILD.
RECURSIVE SubtreeOf(_, _)
SubtreeOf(child, v) ==
    LET RECURSIVE Kids(_)
        Kids(j) == IF j > Len(child[v]) THEN {}
                   ELSE SubtreeOf(child, child[v][j]) \cup Kids(j + 1)
    IN {v} \cup Kids(1)

\* The nodes that S reaches in the subgraph of adj induced by the set Allowed.
RECURSIVE Reach(_, _, _)
Reach(S, adj, Allowed) ==
    LET T == S \cup {u \in Allowed : \E x \in S : u \in Range(adj[x])}
    IN IF T = S THEN S ELSE Reach(T, adj, Allowed)

\* The connected component of v among the voxels whose rank is at most the rank of v.
ComponentBelow(v) == Reach({v}, ADJ, {u \in Nodes : RANK[u] <= RANK[v]})

\* ---------------------------------------------------------------- inputs
Pairs(n) == {e \in (0..n-1) \X (0..n-1) : e[1] < e[2]}

Nbrs(E, v) == {e[2] : e \in {x \in E : x[1] = v}} \cup {e[1] : e \in {x \in E : x[2] = v}}

\* A symmetric, self-exclusive adjacency list; the neighbours of a voxel are
\* listed in ascending or in descending order of id.
AdjOf(n, E, rev) ==
    [v \in 0..n-1 |-> IF rev THEN Reverse(Ascending(Nbrs(E, v))) ELSE Ascending(Nbrs(E, v))]

Perms(n) == {f \in [0..n-1 -> 0..n-1] : \A a, b \in 0..n-1 : a # b => f[a] # f[b]}

\* The orders of the query specification: voxel 0 has the smallest or the largest
\* p-value (every other order is one of these up to a renaming of the voxels).
QueryOrders(n) == {[i \in 0..n-1 |-> i], [i \in 0..n-1 |-> n - 1 - i]}

Inverse(n, f) == [v \in 0..n-1 |-> CHOOSE i \in 0..n-1 : f[i] = v]

\* The numerators of the p-values of the engine specifications: a low and a high one.
PLevels == {1, 2}

\* The p-values of the voxels, non-decreasing along ord.
PValues(n, ord, L) ==
    {p \in [0..n-1 -> L] : \A i \in 0..n-2 : p[ord[i]] <= p[ord[i + 1]]}

\* The numerators of the p-values of the query specification.
QueryPLevels == {1, 2, 3}

\* The parameters h, alpha and simesh that the caller hands to forestTDP.
HomParams(n) ==
    {[h |-> h, alphaN |-> a[1], sN |-> a[2], sD |-> a[3]] :
        h \in 0..n, a \in {<<1, 1, 1>>, <<2, 1, 1>>}}

\* What a read of NUM past its end can find: any int; a negative one, zero and
\* one above every count stand for them.
OOBReads == {-1, 0, MaxM + 1}

\* The thresholds of the queries, as multiples of Scale / 2.
Gammas == {(x * Scale) \div 2 : x \in {-1, 0, 1, 2, 4}}

\* The batches of thresholds handed to answerQueryBatch.
Batches == {<<>>, <<0>>, <<Scale, 0>>, <<0, Scale \div 2, Scale>>}

\* ---------------------------------------------------------------- the forest specification
InitForest ==
    /\ pc = "init"
    /\ m \in 1..MaxN
    /\ \E E \in SUBSET Pairs(m), rev \in BOOLEAN : ADJ = AdjOf(m, E, rev)
    /\ ORD \in Perms(m)
    /\ RANK = Inverse(m, ORD)
    /\ P = Nil /\ hom = Nil
    /\ SIZE = Nil /\ ROOT = Nil /\ CHILD = Nil
    /\ TDP = Nil /\ ADMSTC = Nil /\ MARK = Nil /\ ANS = Nil
    /\ args = NoArgs /\ ret = Nil

FindClusters ==
    /\ pc = "init"
    /\ LET r == findClusters(m, ADJ, ORD, RANK)
       IN /\ SIZE' = r.SIZE
          /\ ROOT' = r.ROOT
          /\ CHILD' = r.CHILD
    /\ pc' = "clustered"
    /\ UNCHANGED <<m, ADJ, ORD, RANK, P, hom, TDP, ADMSTC, MARK, ANS, args, ret>>

NextForest == FindClusters

SpecForest == InitForest /\ [][NextForest]_vars

\* C1: after findClusters the subtree of every voxel v is the connected component
\* of v among the voxels of rank <= rank(v), and v has the largest rank in its subtree.
C1_SubtreeIsComponent ==
    pc = "clustered" =>
        \A v \in Nodes :
            /\ SubtreeOf(CHILD, v) = ComponentBelow(v)
            /\ \A u \in SubtreeOf(CHILD, v) : RANK[u] <= RANK[v]

\* ---------------------------------------------------------------- the engine specification
Forest == [SIZE |-> SIZE, ROOT |-> ROOT, CHILD |-> CHILD]

IsRoot(v) == v \in Range(ROOT)

ParentOf(v) == CHOOSE u \in Nodes : v \in Range(CHILD[u])

\* The starts of the heavy paths: the forest roots and every non-first child.
PathStarts ==
    Range(ROOT) \cup {c \in Nodes : \E u \in Nodes : \E j \in 2..Len(CHILD[u]) : CHILD[u][j] = c}

\* The starts whose TDP is computed from NUM (a root, or a p-value other than the parent's).
OOBReaders == {s \in PathStarts : IsRoot(s) \/ P[s] # P[ParentOf(s)]}

Init ==
    /\ pc = "init"
    /\ m \in 1..MaxM
    /\ \E E \in SUBSET Pairs(m) : ADJ = AdjOf(m, E, FALSE)
    /\ ORD \in Perms(m)
    /\ RANK = Inverse(m, ORD)
    /\ P \in PValues(m, ORD, PLevels)
    /\ hom \in HomParams(m)
    /\ MARK = [v \in 0..m-1 |-> 0]
    /\ SIZE = Nil /\ ROOT = Nil /\ CHILD = Nil
    /\ TDP = Nil /\ ADMSTC = Nil /\ ANS = Nil
    /\ args = NoArgs /\ ret = Nil

ForestTDP ==
    /\ pc = "clustered"
    /\ P # Nil
    /\ \E g \in [OOBReaders -> OOBReads] :
         LET r == forestTDPRun(m, hom, P, Forest,
                               [v \in Nodes |-> IF v \in OOBReaders THEN g[v] ELSE 0])
         IN /\ TDP' = r.tdp
            /\ ret' = [writes |-> r.writes]
    /\ pc' = "tdp"
    /\ UNCHANGED <<m, ADJ, ORD, RANK, P, hom, SIZE, ROOT, CHILD, ADMSTC, MARK, ANS, args>>

QueryPreparation ==
    /\ pc = "tdp"
    /\ ADMSTC' \in queryPreparation(ROOT, TDP, CHILD)
    /\ pc' = "ready"
    /\ UNCHANGED <<m, ADJ, ORD, RANK, P, hom, SIZE, ROOT, CHILD, TDP, MARK, ANS, args, ret>>

AnswerQuery ==
    /\ pc = "ready"
    /\ \E gamma \in Gammas :
         LET r == answerQuery(gamma, ADMSTC, SIZE, MARK, TDP, CHILD)
         IN /\ ANS' = r.ANS
            /\ MARK' = r.MARK
            /\ args' = [op |-> "answerQuery", gamma |-> gamma]
    /\ ret' = Nil
    /\ UNCHANGED <<pc, m, ADJ, ORD, RANK, P, hom, SIZE, ROOT, CHILD, TDP, ADMSTC>>

AnswerQueryBatch ==
    /\ pc = "ready"
    /\ \E batch \in Batches :
         LET r == answerQueryBatch(batch, ADMSTC, SIZE, MARK, TDP, CHILD)
         IN /\ ret' = [results |-> r.results, marks |-> r.marks]
            /\ MARK' = r.MARK
            /\ args' = [op |-> "answerQueryBatch", batch |-> batch]
    /\ ANS' = Nil
    /\ UNCHANGED <<pc, m, ADJ, ORD, RANK, P, hom, SIZE, ROOT, CHILD, TDP, ADMSTC>>

Next == FindClusters \/ ForestTDP \/ QueryPreparation

Spec == Init /\ [][Next]_vars

\* ---------------------------------------------------------------- the query specification
\* The engine as constructed: the forest of findClusters, the TDPs of forestTDP and
\* the list of queryPreparation, for every input of the engine specification.
\* The forests that findClusters builds for the masks of n voxels, each with its order.
BuiltForests(n) ==
    {[f |-> findClusters(n, AdjOf(n, x[1], FALSE), x[2], Inverse(n, x[2])), ord |-> x[2]] :
        x \in (SUBSET Pairs(n)) \X QueryOrders(n)}

\* The starts of the heavy paths of forest f that read NUM.
ReadersOf(n, f, p) ==
    Range(f.ROOT) \cup
    {c \in 0..n-1 : \E u \in 0..n-1 : \E j \in 2..Len(f.CHILD[u]) : f.CHILD[u][j] = c /\ p[c] # p[u]}

\* The forests with the TDPs that forestTDP assigns to them.
BuiltTDPs(n) ==
    UNION {UNION {{[f |-> b.f, tdp |-> forestTDP(n, y[2], y[1], b.f,
                                                 [v \in 0..n-1 |-> IF v \in DOMAIN g THEN g[v] ELSE 0])] :
                      g \in [ReadersOf(n, b.f, y[1]) -> OOBReads]} :
                  y \in PValues(n, b.ord, QueryPLevels) \X HomParams(n)} :
           b \in BuiltForests(n)}

InitQuery ==
    /\ pc = "ready"
    /\ m \in 1..MaxM
    /\ \E b \in BuiltTDPs(m) :
         /\ SIZE = b.f.SIZE /\ ROOT = b.f.ROOT /\ CHILD = b.f.CHILD
         /\ TDP = b.tdp
         /\ ADMSTC \in queryPreparation(b.f.ROOT, b.tdp, b.f.CHILD)
    /\ MARK = [v \in 0..m-1 |-> 0]
    /\ ADJ = Nil /\ ORD = Nil /\ RANK = Nil /\ P = Nil /\ hom = Nil
    /\ ANS = Nil /\ args = NoArgs /\ ret = Nil

NextQuery == AnswerQuery \/ AnswerQueryBatch

SpecQuery == InitQuery /\ [][NextQuery]_vars

\* ---------------------------------------------------------------- the findLeft specification
\* The levels of the TDPs and of the thresholds of the findLeft specification.
LeftLevels == 0..3

LeftGammas == 0..4

InitLeft ==
    /\ pc = "left"
    /\ m \in 0..MaxL
    /\ ADMSTC \in {[i \in 1..m |-> i - 1], [i \in 1..m |-> m - i]}
    /\ TDP \in {t \in [0..m-1 -> LeftLevels] : IsSortedBy(ADMSTC, t)}
    /\ \E gamma \in LeftGammas : args = [op |-> "findLeft", gamma |-> gamma]
    /\ ADJ = Nil /\ ORD = Nil /\ RANK = Nil /\ P = Nil /\ hom = Nil
    /\ SIZE = Nil /\ ROOT = Nil /\ CHILD = Nil /\ MARK = Nil /\ ANS = Nil /\ ret = Nil

FindLeft ==
    /\ pc = "left"
    /\ ret' = findLeftRun(args.gamma, ADMSTC, TDP)
    /\ pc' = "leftDone"
    /\ UNCHANGED <<m, ADJ, ORD, RANK, P, hom, SIZE, ROOT, CHILD, TDP, ADMSTC, MARK, ANS, args>>

NextLeft == FindLeft

SpecLeft == InitLeft /\ [][NextLeft]_vars

\* ---------------------------------------------------------------- the findDiscoveries specification
\* Sorted p-values with numerators 0..2, every h, alpha = 0, 1, 2 and simesh = 0, 1, 3/2.
DiscPLevels == 0..2

DiscParams(n) ==
    {[h |-> h, alphaN |-> a, sN |-> s[1], sD |-> s[2]] :
        h \in 0..n, a \in 0..2, s \in {<<0, 1>>, <<1, 1>>, <<3, 2>>}}

InitDisc ==
    /\ pc = "disc"
    /\ m \in 1..MaxM
    /\ P \in {p \in [0..m-1 -> DiscPLevels] : \A i \in 0..m-2 : p[i] <= p[i + 1]}
    /\ hom \in DiscParams(m)
    /\ \E k \in 0..m : \E idx \in [1..k -> 0..m-1] : args = [op |-> "findDiscoveries", idx |-> idx]
    /\ ADJ = Nil /\ ORD = Nil /\ RANK = Nil
    /\ SIZE = Nil /\ ROOT = Nil /\ CHILD = Nil
    /\ TDP = Nil /\ ADMSTC = Nil /\ MARK = Nil /\ ANS = Nil /\ ret = Nil

FindDiscoveries ==
    /\ pc = "disc"
    /\ ret' = findDiscoveries(args.idx, P, hom, Len(args.idx), m)
    /\ pc' = "discDone"
    /\ UNCHANGED <<m, ADJ, ORD, RANK, P, hom, SIZE, ROOT, CHILD, TDP, ADMSTC, MARK, ANS, args>>

NextDisc == FindDiscoveries

SpecDisc == InitDisc /\ [][NextDisc]_vars

\* ---------------------------------------------------------------- properties of the forest
\* A state after findClusters in which a voxel with two children heads a subtree
\* while another tree of the forest stands beside it.
C1_Witness ==
    /\ pc = "clustered"
    /\ Len(ROOT) >= 2
    /\ \E v \in Nodes : Len(CHILD[v]) >= 2 /\ SubtreeOf(CHILD, v) = ComponentBelow(v)

\* ---------------------------------------------------------------- properties of the queries
ProperAncestors(v) == {a \in Nodes : a # v /\ v \in SubtreeOf(CHILD, a)}

\* The representative of a cluster is its last element.
Rep(clus) == clus[Len(clus)]

Reps(ans) == {Rep(ans[i]) : i \in 1..Len(ans)}

ZeroMark == [v \in Nodes |-> 0]

Answered == pc = "ready" /\ args.op = "answerQuery"

Threshold == Max(0, args.gamma)

\* C2: the clusters returned by answerQuery(gamma) are pairwise voxel-disjoint and the
\* representative (last element) of each has tdp >= max(0, gamma).
C2_DisjointAboveGamma ==
    Answered =>
        /\ \A i, j \in 1..Len(ANS) : i # j => Range(ANS[i]) \cap Range(ANS[j]) = {}
        /\ \A i \in 1..Len(ANS) : TDP[Rep(ANS[i])] >= Threshold

\* A positive gamma answered with two clusters, one of them of several voxels.
C2_Witness ==
    /\ Answered
    /\ args.gamma > 0
    /\ Len(ANS) >= 2
    /\ \E i \in 1..Len(ANS) : Len(ANS[i]) >= 2

\* C3: answerQuery(gamma) returns exactly the maximal clusters: r is the representative
\* of a returned cluster iff tdp[r] >= g and no proper ancestor of r has tdp >= g, with
\* g = max(0, gamma); every node with tdp >= g lies in some returned cluster.
C3_MaximalClusters ==
    Answered =>
        /\ Reps(ANS) = {r \in Nodes : /\ TDP[r] >= Threshold
                                      /\ \A a \in ProperAncestors(r) : TDP[a] < Threshold}
        /\ \A v \in Nodes : TDP[v] >= Threshold => \E i \in 1..Len(ANS) : v \in Range(ANS[i])

\* An answer with a representative below a node under the threshold, and with a node
\* over the threshold that is inside a cluster without being its representative.
C3_Witness ==
    /\ Answered
    /\ args.gamma > 0
    /\ \E r \in Reps(ANS) : \E a \in ProperAncestors(r) : TDP[a] >= 0 /\ TDP[a] < Threshold
    /\ \E v \in Nodes : TDP[v] >= Threshold /\ v \notin Reps(ANS)

\* C4: on the same engine state, for gamma1 < gamma2 every cluster of answerQuery(gamma2)
\* is a subset of some cluster of answerQuery(gamma1).
C4_MonotoneInGamma ==
    Answered =>
        \A g1 \in Gammas :
            g1 < args.gamma =>
                LET A1 == answerQuery(g1, ADMSTC, SIZE, MARK, TDP, CHILD).ANS
                IN \A i \in 1..Len(ANS) : \E j \in 1..Len(A1) : Range(ANS[i]) \subseteq Range(A1[j])

\* An answer whose cluster is a proper part of a cluster of a smaller gamma.
C4_Witness ==
    /\ Answered
    /\ \E g1 \in Gammas :
         /\ g1 < args.gamma
         /\ LET A1 == answerQuery(g1, ADMSTC, SIZE, MARK, TDP, CHILD).ANS
            IN \E i \in 1..Len(ANS) : \E j \in 1..Len(A1) :
                   Range(ANS[i]) \subseteq Range(A1[j]) /\ Range(ANS[i]) # Range(A1[j])

\* C5: answerQuery and answerQueryBatch return with MARK all zero, for each gamma of a
\* batch before the next one is processed, so that every query of a sequence gives the
\* answer it gives on a fresh engine.
C5_MarkRestored ==
    pc = "ready" =>
        /\ MARK = ZeroMark
        /\ args.op = "answerQuery" =>
               ANS = answerQuery(args.gamma, ADMSTC, SIZE, ZeroMark, TDP, CHILD).ANS
        /\ args.op = "answerQueryBatch" =>
               \A i \in 1..Len(args.batch) :
                   /\ ret.marks[i] = ZeroMark
                   /\ ret.results[i] = answerQuery(args.batch[i], ADMSTC, SIZE, ZeroMark, TDP, CHILD).ANS

\* A batch of several thresholds whose first answer marked a cluster of several voxels.
C5_Witness ==
    /\ pc = "ready"
    /\ args.op = "answerQueryBatch"
    /\ Len(args.batch) >= 2
    /\ ret.results[1] # <<>>
    /\ Len(ret.results[1][1]) >= 2
    /\ ret.results[2] # <<>>

\* ---------------------------------------------------------------- properties of the TDPs
\* The nodes of the heavy path that starts at v.
RECURSIVE HeavyPath(_)
HeavyPath(v) == IF CHILD[v] = <<>> THEN {v} ELSE {v} \cup HeavyPath(At(CHILD[v], 0))

\* C6: after forestTDP every voxel has tdp = -1 or a tdp in [0, 1].
C6_TDPInUnitRange ==
    pc \in {"tdp", "ready"} => \A v \in Nodes : TDP[v] = Invalid \/ (0 <= TDP[v] /\ TDP[v] <= Scale)

\* C7: on the heavy path from s, with disc = findDiscoveries(descendants(s)), a root or
\* a node whose p-value differs from its parent's has tdp = disc[size - 1] / size, and
\* every other node has tdp = -1.
C7_TDPFromPrefix ==
    pc = "tdp" =>
        \A s \in PathStarts :
            LET HP == descendants(s, SIZE, CHILD)
                disc == findDiscoveries(HP, P, hom, Len(HP), m)
            IN \A v \in HeavyPath(s) :
                   TDP[v] = IF IsRoot(v) \/ P[v] # P[ParentOf(v)]
                            THEN (At(disc, SIZE[v] - 1) * Scale) \div SIZE[v]
                            ELSE Invalid

\* C8: the result of findDiscoveries has one entry per index, starts with 0 or 1 and
\* grows by 0 or 1 from each entry to the next.
C8_UnitIncrements ==
    pc = "discDone" =>
        /\ Len(ret) = Len(args.idx)
        /\ Len(ret) > 0 => ret[1] \in {0, 1}
        /\ \A j \in 2..Len(ret) : ret[j] - ret[j - 1] \in {0, 1}

\* A result that starts with no discovery, stays level once and counts two discoveries.
C8_Witness ==
    /\ pc = "discDone"
    /\ Len(ret) >= 3
    /\ ret[1] = 0
    /\ ret[Len(ret)] >= 2

\* ---------------------------------------------------------------- properties of the list
Admissible(v) == TDP[v] > Invalid /\ \A a \in ProperAncestors(v) : TDP[v] > TDP[a]

Occurrences(s, v) == Cardinality({i \in 1..Len(s) : s[i] = v})

\* The list holds the admissible nodes and no others, each of them once.
ExactlyAdmissible == \A v \in Nodes : Occurrences(ADMSTC, v) = IF Admissible(v) THEN 1 ELSE 0

\* What queryPreparation guarantees for every TDP array it is given: the admissible
\* nodes, each once, in the order of non-decreasing tdp.
AdmissibleSorted == pc = "ready" => ExactlyAdmissible /\ IsSortedBy(ADMSTC, TDP)

\* C9: the list of queryPreparation holds exactly the nodes whose tdp is above -1 and
\* above the tdp of every proper ancestor, each once, in the order of non-decreasing
\* tdp, and every entry has tdp >= 0.
C9_AdmissibleList ==
    pc = "ready" =>
        /\ ExactlyAdmissible
        /\ IsSortedBy(ADMSTC, TDP)
        /\ \A i \in 1..Len(ADMSTC) : TDP[ADMSTC[i]] >= 0

\* ---------------------------------------------------------------- properties of findLeft
\* The indices of ADMSTC whose tdp reaches the threshold.
Reaching == {i \in 0..Len(ADMSTC) - 1 : TDP[At(ADMSTC, i)] >= args.gamma}

\* C10: findLeft returns the smallest index whose tdp is >= gamma, or the length of
\* the list when there is none, and reads no index below 0.
C10_FindLeft ==
    pc = "leftDone" =>
        /\ ~ret.oob
        /\ ret.ret = IF Reaching = {} THEN Len(ADMSTC)
                     ELSE CHOOSE i \in Reaching : \A j \in Reaching : i <= j

\* The linear probe ends the search inside a list of four or more entries.
C10_Witness ==
    /\ pc = "leftDone"
    /\ ret.by = "linear"
    /\ Len(ADMSTC) >= 4
    /\ ret.ret \in 1..Len(ADMSTC) - 1

\* ---------------------------------------------------------------- properties of the forest, continued
RECURSIVE SumSizes(_, _)
SumSizes(size, chd) == IF chd = <<>> THEN 0 ELSE size[Head(chd)] + SumSizes(size, Tail(chd))

\* C11: in the output of findClusters SIZE[v] = 1 + the sum of SIZE[c] over the
\* children c of v, i.e. SIZE[v] is the number of nodes of the subtree of v.
C11_SizeIsSubtreeSize ==
    pc = "clustered" =>
        \A v \in Nodes :
            /\ SIZE[v] = 1 + SumSizes(SIZE, CHILD[v])
            /\ SIZE[v] = Cardinality(SubtreeOf(CHILD, v))

\* A node that is not a forest root, with a child that has a child of its own.
C11_Witness ==
    /\ pc = "clustered"
    /\ \E v \in Nodes : /\ ~(v \in Range(ROOT))
                        /\ \E i \in 1..Len(CHILD[v]) : CHILD[CHILD[v][i]] # <<>>
                        /\ SIZE[v] = 1 + SumSizes(SIZE, CHILD[v])

\* The position in ADJ[v] of the first neighbour of v that lies in the subtree of c:
\* the children of v are merged in the order of these positions.
MergedAt(v, c) ==
    CHOOSE j \in 1..Len(ADJ[v]) :
        /\ ADJ[v][j] \in SubtreeOf(CHILD, c)
        /\ \A k \in 1..(j - 1) : ADJ[v][k] \notin SubtreeOf(CHILD, c)

\* C12: the first child of v is at least as large as every other child, and among
\* the children of maximal size it is the one that was merged first.
C12_HeavyChildFirst ==
    pc = "clustered" =>
        \A v \in Nodes : \A j \in 2..Len(CHILD[v]) :
            /\ SIZE[CHILD[v][1]] >= SIZE[CHILD[v][j]]
            /\ SIZE[CHILD[v][1]] = SIZE[CHILD[v][j]] => MergedAt(v, CHILD[v][1]) < MergedAt(v, CHILD[v][j])

\* A node with three children of which the first two have the same size.
C12_Witness ==
    /\ pc = "clustered"
    /\ \E v \in Nodes :
           /\ Len(CHILD[v]) >= 3
           /\ SIZE[CHILD[v][1]] = SIZE[CHILD[v][2]]
           /\ MergedAt(v, CHILD[v][1]) < MergedAt(v, CHILD[v][2])

\* The position of node u in the list s.
PosIn(s, u) == CHOOSE i \in 1..Len(s) : s[i] = u

\* C20: descendants(s) lists every node of the subtree of s once, in post-order with s
\* last, and its first SIZE[v] entries are the subtree of v for every v on the heavy
\* path from s.
C20_PostOrderPrefixes ==
    pc = "clustered" =>
        \A s \in Nodes :
            LET r == descendantsRun(s, SIZE, CHILD)
                D == descendants(s, SIZE, CHILD)
            IN /\ ~r.oob
               /\ Len(D) = Cardinality(SubtreeOf(CHILD, s))
               /\ Range(D) = SubtreeOf(CHILD, s)
               /\ D[Len(D)] = s
               /\ \A u \in Range(D) : \A w \in SubtreeOf(CHILD, u) : PosIn(D, w) <= PosIn(D, u)
               /\ \A v \in HeavyPath(s) : Range(SubSeq(D, 1, SIZE[v])) = SubtreeOf(CHILD, v)

\* The listing of node 0 when it has a heavy child with a child and a second child.
C20_Witness ==
    /\ pc = "clustered"
    /\ Len(CHILD[0]) >= 2
    /\ CHILD[CHILD[0][1]] # <<>>
    /\ LET D == descendants(0, SIZE, CHILD)
       IN Len(D) >= 4 /\ D[Len(D)] = 0 /\ Range(SubSeq(D, 1, 2)) = SubtreeOf(CHILD, CHILD[0][1])

\* ---------------------------------------------------------------- hull and jumps of h(alpha)
\* A double that is a quotient is the pair <<n, d>> with d >= 0: d > 0 is the rational
\* n / d, <<1, 0>> is +infinity (x / 0 with x > 0) and <<0, 0>> is NaN (0 / 0).
\* Comparisons follow IEEE 754: every comparison with NaN is false.
PosInf == <<1, 0>>

NaN == <<0, 0>>

One == <<1, 1>>

IsNaN(a) == a = NaN

RLt(a, b) == ~IsNaN(a) /\ ~IsNaN(b) /\ a[1] * b[2] < b[1] * a[2]

RGt(a, b) == RLt(b, a)

RGe(a, b) == ~IsNaN(a) /\ ~IsNaN(b) /\ a[1] * b[2] >= b[1] * a[2]

RLe(a, b) == RGe(b, a)

\* num / den for a quotient num = <<n, d>> with n >= 0, d > 0 and an int den.
Quot(num, den) ==
    IF den > 0 THEN <<num[1], num[2] * den>>
    ELSE IF den < 0 THEN <<-num[1], num[2] * (-den)>>
    ELSE IF num[1] > 0 THEN PosInf ELSE NaN

\* The do-while loop of findhull that removes the points of the hull that the point i
\* makes non-convex; hull is a sequence of zero-based indices, p a function over 0..m-1.
RECURSIVE HullPop(_, _, _)
HullPop(hull, i, p) ==
    LET r == Len(hull) - 1
        notconvex ==
            IF r > 0
            THEN (i - At(hull, r - 1)) * (p[At(hull, r)] - p[At(hull, r - 1)]) >=
                 (At(hull, r) - At(hull, r - 1)) * (p[i] - p[At(hull, r - 1)])
            ELSE IF r = 0 THEN i * p[At(hull, 0)] >= At(hull, 0) * p[i]
            ELSE FALSE
    IN IF notconvex THEN HullPop(SubSeq(hull, 1, r), i, p) ELSE hull

RECURSIVE HullLoop(_, _, _, _)
HullLoop(i, n, p, hull) ==
    IF i >= n THEN hull
    ELSE IF i = n - 1 \/ (n - 1) * (p[i] - p[0]) < i * (p[n - 1] - p[0])
         THEN HullLoop(i + 1, n, p, Append(HullPop(hull, i, p), i))
         ELSE HullLoop(i + 1, n, p, hull)

findhull(n, p) == HullLoop(1, n, p, <<0>>)

\* H_i * i!, an integer: i! / 1 + i! / 2 + ... + i! / i.
RECURSIVE HarmonicTimesFactorial(_, _)
HarmonicTimesFactorial(i, j) ==
    IF j > i THEN 0 ELSE Factorial(i) \div j + HarmonicTimesFactorial(i, j + 1)

\* simesfactor[0..n]: i for Simes, i * (1 + 1/2 + ... + 1/i) otherwise.
findsimesfactor(simes, n) ==
    [i \in 0..n |-> IF i = 0 THEN <<0, 1>>
                    ELSE IF simes THEN <<i, 1>>
                    ELSE <<i * HarmonicTimesFactorial(i, 1), Factorial(i)>>]

\* The main loop of findalpha; p holds the numerators of the p-values over pd.
RECURSIVE AlphaLoop(_, _, _, _, _, _, _, _)
AlphaLoop(i, k, n, p, pd, hull, sf, alpha) ==
    IF i >= n THEN alpha
    ELSE LET Dk == p[At(hull, k - 1)] * (At(hull, k) - n + i + 1) -
                   p[At(hull, k)] * (At(hull, k - 1) - n + i + 1)
         IN IF k > 0 /\ Dk < 0
            THEN AlphaLoop(i, k - 1, n, p, pd, hull, sf, alpha)
            ELSE AlphaLoop(i + 1, k, n, p, pd, hull, sf,
                     Append(alpha, Quot(<<sf[i + 1][1] * p[At(hull, k)], sf[i + 1][2] * pd>>,
                                        At(hull, k) - n + i + 1)))

\* Bound alpha values by 1.
BoundByOne(alpha) == [i \in 1..Len(alpha) |-> IF RGt(alpha[i], One) THEN One ELSE alpha[i]]

\* The cumulative maximum from the right, for i = n - 2 down to 0.
RECURSIVE CumulativeMax(_, _)
CumulativeMax(i, alpha) ==
    IF i < 0 THEN alpha
    ELSE CumulativeMax(i - 1,
             IF RLt(At(alpha, i), At(alpha, i + 1))
             THEN [alpha EXCEPT ![i + 1] = At(alpha, i + 1)]
             ELSE alpha)

\* Returns the sequence alpha of the n jumps.
findalpha(p, pd, n, sf, simes) ==
    LET hull == findhull(n, p)
        alpha == AlphaLoop(0, Len(hull) - 1, n, p, pd, hull, sf, <<>>)
    IN IF simes THEN alpha ELSE CumulativeMax(n - 2, BoundByOne(alpha))

RECURSIVE HalphaLoop(_, _, _, _)
HalphaLoop(lower, upper, jumpalpha, alpha) ==
    IF lower + 1 < upper
    THEN LET mid == (lower + upper) \div 2
         IN IF RGt(At(jumpalpha, mid), alpha)
            THEN HalphaLoop(mid, upper, jumpalpha, alpha)
            ELSE HalphaLoop(lower, mid, jumpalpha, alpha)
    ELSE lower

findHalpha(jumpalpha, alpha, n) == HalphaLoop(0, n, jumpalpha, alpha)

\* ---------------------------------------------------------------- the findalpha specification
\* The p-values 0, 1/4, 2/4, 3/4 and 1: their products and differences are exact doubles.
AlphaPD == 4

AlphaPLevels == 0..AlphaPD

InitAlpha ==
    /\ pc = "alpha"
    /\ m \in 1..MaxJ
    /\ P \in {p \in [0..m-1 -> AlphaPLevels] : \A i \in 0..m-2 : p[i] <= p[i + 1]}
    /\ \E simes \in BOOLEAN : args = [op |-> "findalpha", simes |-> simes]
    /\ ADJ = Nil /\ ORD = Nil /\ RANK = Nil /\ hom = Nil
    /\ SIZE = Nil /\ ROOT = Nil /\ CHILD = Nil
    /\ TDP = Nil /\ ADMSTC = Nil /\ MARK = Nil /\ ANS = Nil /\ ret = Nil

FindAlpha ==
    /\ pc = "alpha"
    /\ ret' = findalpha(P, AlphaPD, m, findsimesfactor(args.simes, m), args.simes)
    /\ pc' = "alphaDone"
    /\ UNCHANGED <<m, ADJ, ORD, RANK, P, hom, SIZE, ROOT, CHILD, TDP, ADMSTC, MARK, ANS, args>>

FindHull ==
    /\ pc = "alpha"
    /\ ret' = findhull(m, P)
    /\ pc' = "hullDone"
    /\ UNCHANGED <<m, ADJ, ORD, RANK, P, hom, SIZE, ROOT, CHILD, TDP, ADMSTC, MARK, ANS, args>>

NextAlpha == FindAlpha \/ FindHull

SpecAlpha == InitAlpha /\ [][NextAlpha]_vars

\* C14: the sequence of findalpha is non-increasing, and with simes = false every entry
\* is at most 1.
C14_JumpsNonIncreasing ==
    pc = "alphaDone" =>
        /\ Len(ret) = m
        /\ \A i \in 1..(m - 1) : RGe(ret[i], ret[i + 1])
        /\ ~args.simes => \A i \in 1..m : RLe(ret[i], One)

\* What findalpha keeps: the order and the bound whenever some p-value is not 0; the
\* first jump is then infinite for Simes, the quotient by hull[k] - m + i + 1 = 0.
JumpsOrderedUnlessAllZero ==
    (pc = "alphaDone" /\ P[m - 1] > 0) =>
        /\ \A i \in 1..(m - 1) : RGe(ret[i], ret[i + 1])
        /\ ~args.simes => \A i \in 1..m : RLe(ret[i], One)
        /\ args.simes => ret[1] = PosInf

\* ---------------------------------------------------------------- the findHalpha specification
\* The entries of jumpalpha and alpha are the levels 0..3, and an infinite first entry.
JumpLevels == {<<x, 1>> : x \in 0..3} \cup {PosInf}

InitHalpha ==
    /\ pc = "halpha"
    /\ m \in 0..MaxJ
    /\ \E j \in {a \in [1..m -> JumpLevels] : \A i \in 1..(m - 1) : RGe(a[i], a[i + 1])} :
       \E x \in 0..3 : args = [op |-> "findHalpha", jumpalpha |-> j, alpha |-> <<x, 1>>]
    /\ ADJ = Nil /\ ORD = Nil /\ RANK = Nil /\ P = Nil /\ hom = Nil
    /\ SIZE = Nil /\ ROOT = Nil /\ CHILD = Nil
    /\ TDP = Nil /\ ADMSTC = Nil /\ MARK = Nil /\ ANS = Nil /\ ret = Nil

FindHalpha ==
    /\ pc = "halpha"
    /\ ret' = findHalpha(args.jumpalpha, args.alpha, m)
    /\ pc' = "halphaDone"
    /\ UNCHANGED <<m, ADJ, ORD, RANK, P, hom, SIZE, ROOT, CHILD, TDP, ADMSTC, MARK, ANS, args>>

NextHalpha == FindHalpha

SpecHalpha == InitHalpha /\ [][NextHalpha]_vars

\* The number of entries of jumpalpha that are greater than alpha.
JumpsAbove == Cardinality({i \in 1..m : RGt(args.jumpalpha[i], args.alpha)})

\* C13: findHalpha returns the number of entries of jumpalpha greater than alpha, i.e.
\* the largest h with jumpalpha[h-1] > alpha, and 0 when there is none.
C13_HalphaCountsJumps == pc = "halphaDone" => ret = JumpsAbove

\* What the search returns: it never looks at jumpalpha[0] and stops one short.
HalphaOneShort == pc = "halphaDone" => ret = Max(JumpsAbove - 1, 0)


\* ---------------------------------------------------------------- changeQuery
\* The two-pointer search of findRep for v in CLUS[left..right].
RECURSIVE RepScan(_, _, _, _)
RepScan(left, right, clus, v) ==
    IF left > right THEN FALSE
    ELSE IF At(clus, left) = v THEN TRUE
    ELSE IF At(clus, right) = v THEN TRUE
    ELSE RepScan(left + 1, right - 1, clus, v)

RECURSIVE RepLoop(_, _, _, _)
RepLoop(i, v, size, ans) ==
    IF i >= Len(ans) THEN -1
    ELSE LET CLUS == At(ans, i)
             irep == At(CLUS, Len(CLUS) - 1)
         IN IF irep = v THEN i
            ELSE IF size[irep] > size[v] /\ RepScan(0, Len(CLUS) - 1, CLUS, v) THEN i
            ELSE RepLoop(i + 1, v, size, ans)

\* The index in ANS of the cluster that holds v, or -1.
findRep(v, size, ans) == RepLoop(0, v, size, ans)

\* The search of findIndex: a binary search on the tdp (low, high) interleaved with
\* a linear search for irep from both ends (left, right).
RECURSIVE IndexLoop(_, _, _, _, _, _, _)
IndexLoop(left, right, low, high, irep, adm, tdp) ==
    IF low > high THEN -1
    ELSE LET mid == (low + high) \div 2
             t == tdp[At(adm, mid)]
         IN IF t = tdp[irep] THEN mid
            ELSE IF At(adm, right) = irep THEN right
            ELSE IF At(adm, left) = irep THEN left
            ELSE IndexLoop(left + 1, right - 1,
                           IF t < tdp[irep] THEN mid + 1 ELSE low,
                           IF t > tdp[irep] THEN mid - 1 ELSE high, irep, adm, tdp)

findIndex(irep, adm, tdp) == IndexLoop(0, Len(adm) - 1, 0, Len(adm) - 1, irep, adm, tdp)

\* The checks without the two comparisons of the requested change with the range of tdp.
validation_NoRange(v, tdpchg, adm, size, tdp, ans) ==
    LET iclus == findRep(v, size, ans)
        CLUS == At(ans, iclus)
        idxv == findIndex(At(CLUS, Len(CLUS) - 1), adm, tdp)
        maxtdp == tdp[At(adm, Len(adm) - 1)]
        mintdp == tdp[At(adm, 0)]
        curtdp == tdp[At(CLUS, Len(CLUS) - 1)]
    IN IF v < 0 THEN "negative v"
       ELSE IF iclus < 0 THEN "no cluster"
       ELSE IF idxv < 0 THEN "not in ADMSTC"
       ELSE IF tdpchg <= -Scale \/ tdpchg = 0 \/ tdpchg >= Scale THEN "tdpchg"
       ELSE IF (tdpchg < 0 /\ mintdp = curtdp) \/ (tdpchg > 0 /\ maxtdp = curtdp)
            THEN "no further changes"
       ELSE "none"

\* The checks of changeQuery before it marks anything: the error it throws, or "none".
validation(v, tdpchg, adm, size, tdp, ans) ==
    LET iclus == findRep(v, size, ans)
        CLUS == At(ans, iclus)
        idxv == findIndex(At(CLUS, Len(CLUS) - 1), adm, tdp)
        maxtdp == tdp[At(adm, Len(adm) - 1)]
        mintdp == tdp[At(adm, 0)]
        curtdp == tdp[At(CLUS, Len(CLUS) - 1)]
    IN IF v < 0 THEN "negative v"
       ELSE IF iclus < 0 THEN "no cluster"
       ELSE IF idxv < 0 THEN "not in ADMSTC"
       ELSE IF tdpchg <= -Scale \/ tdpchg = 0 \/ tdpchg >= Scale THEN "tdpchg"
       ELSE IF (tdpchg < 0 /\ mintdp = curtdp) \/ (tdpchg > 0 /\ maxtdp = curtdp)
            THEN "no further changes"
       ELSE IF tdpchg < 0 /\ mintdp - curtdp > tdpchg THEN "no reduction"
       ELSE IF tdpchg > 0 /\ maxtdp - curtdp < tdpchg THEN "no augmentation"
       ELSE "none"

\* The clearing that resets the marks of value 1 and leaves those of value 2.
ClearMarks_OnesOnly(mark, clus) ==
    [v \in DOMAIN mark |-> IF v \in Range(clus) /\ mark[v] = 1 THEN 0 ELSE mark[v]]

\* "Clear marks back to 0": the loop over the chosen cluster before a list is returned.
ClearMarks(mark, clus) == MarkAll(mark, clus, 0)

\* The scan of the grow branch for a marked node of DESC, from both ends.
RECURSIVE GrowScan(_, _, _, _)
GrowScan(left, right, DESC, mark) ==
    IF left > right THEN FALSE
    ELSE IF mark[At(DESC, left)] > 0 \/ mark[At(DESC, right)] > 0 THEN TRUE
    ELSE GrowScan(left + 1, right - 1, DESC, mark)

\* The loop "while (r - l >= CL.size() - 1)" of the grow branch. The comparison is
\* made in size_t, so a negative r - l passes it. Returns [end, l, r]: "break" when a
\* node marked 2 is met, "exit" when the condition fails, "read" when DESC is read
\* outside 0..n-1.
RECURSIVE ContainLoop(_, _, _, _, _)
ContainLoop(l, r, DESC, k, mark) ==
    IF ~(r - l < 0 \/ r - l >= k - 1) THEN [end |-> "exit", l |-> l, r |-> r]
    ELSE IF ~InBounds(DESC, l) \/ ~InBounds(DESC, r) THEN [end |-> "read", l |-> l, r |-> r]
    ELSE IF mark[At(DESC, l)] = 2 \/ mark[At(DESC, r)] = 2 THEN [end |-> "break", l |-> l, r |-> r]
    ELSE ContainLoop(l + 1, r - 1, DESC, k, mark)

\* The loop of the grow branch over the clusters of ANS other than the chosen one;
\* c = [CHG, dfsz, fault, MARK]. oob is what a read of DESC outside its bounds does:
\* "fault" ends the process, "found" is a value whose mark reads as 2 (any other
\* value repeats the read one place further on).
RECURSIVE AppendLoop(_, _, _, _, _, _)
AppendLoop(j, iclus, DESC, ans, oob, c) ==
    IF j >= Len(ans) \/ c.fault THEN c
    ELSE IF j = iclus THEN AppendLoop(j + 1, iclus, DESC, ans, oob, c)
    ELSE LET CL == At(ans, j)
             k == Len(CL)
         IN IF c.dfsz >= k
            THEN LET mk == MarkAll(c.MARK, CL, 2)
                     e == ContainLoop(0, Len(DESC) - 1, DESC, k, mk)
                     dfsz == IF e.end = "exit" THEN c.dfsz ELSE c.dfsz - k
                     push == \/ e.l > Len(DESC) - 1
                             \/ e.r < 0
                             \/ (mk[At(DESC, e.l)] # 2 /\ mk[At(DESC, e.r)] # 2)
                 IN IF e.end = "read" /\ oob = "fault"
                    THEN [c EXCEPT !.fault = TRUE, !.MARK = mk]
                    ELSE AppendLoop(j + 1, iclus, DESC, ans, oob,
                                    [CHG |-> IF push THEN Append(c.CHG, CL) ELSE c.CHG,
                                     dfsz |-> dfsz, fault |-> FALSE, MARK |-> MarkAll(mk, CL, 0)])
            ELSE AppendLoop(j + 1, iclus, DESC, ans, oob,
                            [c EXCEPT !.CHG = Append(c.CHG, CL)])

\* The grow branch: the loop over ADMSTC[idxv-1], ..., ADMSTC[0]. Returns [kind, CHG, MARK].
RECURSIVE GrowLoop(_, _, _, _, _, _, _, _, _, _, _)
GrowLoop(i, idxv, iclus, tdpchg, adm, size, mark, tdp, child, ans, oob) ==
    LET CLUS == At(ans, iclus)
    IN IF i < 0 THEN [kind |-> "list", CHG |-> <<>>, MARK |-> ClearMarks(mark, CLUS)]
       ELSE LET a == At(adm, i)
                DESC == descendants(a, size, child)
            IN IF /\ tdp[a] >= 0
                  /\ tdp[a] - tdp[At(adm, idxv)] <= tdpchg
                  /\ size[a] > size[At(adm, idxv)]
                  /\ GrowScan(0, Len(DESC) - 1, DESC, mark)
               THEN LET c == AppendLoop(0, iclus, DESC, ans, oob,
                                        [CHG |-> <<DESC>>, dfsz |-> Len(DESC) - Len(CLUS),
                                         fault |-> FALSE, MARK |-> mark])
                    IN IF c.fault THEN [kind |-> "fault", CHG |-> <<>>, MARK |-> c.MARK]
                       ELSE [kind |-> "list", CHG |-> c.CHG, MARK |-> ClearMarks(c.MARK, CLUS)]
               ELSE GrowLoop(i - 1, idxv, iclus, tdpchg, adm, size, mark, tdp, child, ans, oob)

\* The shrink loop that accepts a node whether or not it lies in the marked cluster.
RECURSIVE ShrinkLoop_AnyMark(_, _, _, _, _, _, _, _)
ShrinkLoop_AnyMark(i, idxv, tdpchg, adm, size, tdp, child, c) ==
    IF i >= Len(adm) THEN c
    ELSE LET a == At(adm, i)
         IN IF tdp[a] >= 0 /\ tdp[a] - tdp[At(adm, idxv)] >= tdpchg
            THEN LET DESC == descendants(a, size, child)
                 IN ShrinkLoop_AnyMark(i + 1, idxv, tdpchg, adm, size, tdp, child,
                               [CHG |-> Append(c.CHG, DESC), MARK |-> MarkAll(c.MARK, DESC, 2)])
            ELSE ShrinkLoop_AnyMark(i + 1, idxv, tdpchg, adm, size, tdp, child, c)

\* The shrink branch: the loop over ADMSTC[idxv+1..]; c = [CHG, MARK].
RECURSIVE ShrinkLoop(_, _, _, _, _, _, _, _)
ShrinkLoop(i, idxv, tdpchg, adm, size, tdp, child, c) ==
    IF i >= Len(adm) THEN c
    ELSE LET a == At(adm, i)
         IN IF tdp[a] >= 0 /\ tdp[a] - tdp[At(adm, idxv)] >= tdpchg /\ c.MARK[a] = 1
            THEN LET DESC == descendants(a, size, child)
                 IN ShrinkLoop(i + 1, idxv, tdpchg, adm, size, tdp, child,
                               [CHG |-> Append(c.CHG, DESC), MARK |-> MarkAll(c.MARK, DESC, 2)])
            ELSE ShrinkLoop(i + 1, idxv, tdpchg, adm, size, tdp, child, c)

\* The clusters of ANS other than the chosen one, in their order.
RECURSIVE Untouched(_, _, _, _)
Untouched(j, iclus, ans, chg) ==
    IF j >= Len(ans) THEN chg
    ELSE Untouched(j + 1, iclus, ans, IF j # iclus THEN Append(chg, At(ans, j)) ELSE chg)

\* Returns [kind, CHG, MARK, error]: kind is "error" (an exception is thrown), "list"
\* (CHG is returned) or "fault" (the process is ended by a read outside DESC).
changeQuery(v, tdpchg, adm, size, mark, tdp, child, ans, oob) ==
    LET error == validation(v, tdpchg, adm, size, tdp, ans)
        iclus == findRep(v, size, ans)
        CLUS == At(ans, iclus)
        idxv == findIndex(At(CLUS, Len(CLUS) - 1), adm, tdp)
        marked == MarkAll(mark, CLUS, 1)
    IN IF error # "none"
       THEN [kind |-> "error", CHG |-> <<>>, MARK |-> mark, error |-> error]
       ELSE IF tdpchg < 0
       THEN [error |-> "none"] @@
            GrowLoop(idxv - 1, idxv, iclus, tdpchg, adm, size, marked, tdp, child, ans, oob)
       ELSE LET c == ShrinkLoop(idxv + 1, idxv, tdpchg, adm, size, tdp, child,
                                [CHG |-> <<>>, MARK |-> marked])
            IN [kind |-> "list", CHG |-> Untouched(0, iclus, ans, c.CHG),
                MARK |-> ClearMarks(c.MARK, CLUS), error |-> "none"]

\* The loop that starts at node 1 and so never reports node 0.
findLMS_SkipFirst(child) == Ascending({v \in DOMAIN child : v # 0 /\ child[v] = <<>>})

\* Find all local minima: the nodes without children, by increasing number.
findLMS(child) == Ascending({v \in DOMAIN child : child[v] = <<>>})


\* ---------------------------------------------------------------- the changeQuery specification
\* The voxels handed to changeQuery: every node, and -1.
ChangeVoxels == -1..m-1

\* The changes of tdp handed to changeQuery, as multiples of Scale / 6.
\* tdpchg and the tdp are numerators over Scale and are compared exactly; the source
\* compares doubles, which differs where a difference of two tdp is rounded.
ChangeDeltas == {(x * Scale) \div 6 : x \in {-6, -3, -2, 0, 2, 3, 6}}

\* What a read outside DESC does in the grow branch.
OOBMarks == {"fault", "found"}

ChangeQuery ==
    /\ pc = "ready"
    /\ args.op = "answerQuery"
    /\ \E v \in ChangeVoxels, tdpchg \in ChangeDeltas, oob \in OOBMarks :
         LET r == changeQuery(v, tdpchg, ADMSTC, SIZE, MARK, TDP, CHILD, ANS, oob)
         IN /\ ret' = [kind |-> r.kind, CHG |-> r.CHG, error |-> r.error]
            /\ MARK' = r.MARK
            /\ args' = [op |-> "changeQuery", v |-> v, tdpchg |-> tdpchg, gamma |-> args.gamma]
    /\ pc' = "changed"
    /\ UNCHANGED <<m, ADJ, ORD, RANK, P, hom, SIZE, ROOT, CHILD, TDP, ADMSTC, ANS>>

FindLMS ==
    /\ pc = "ready"
    /\ args.op = "none"
    /\ ret' = findLMS(CHILD)
    /\ args' = [op |-> "findLMS"]
    /\ pc' = "lms"
    /\ UNCHANGED <<m, ADJ, ORD, RANK, P, hom, SIZE, ROOT, CHILD, TDP, ADMSTC, MARK, ANS>>

NextChange == AnswerQuery \/ ChangeQuery \/ FindLMS

SpecChange == InitQuery /\ [][NextChange]_vars


\* ---------------------------------------------------------------- properties of changeQuery
\* changeQuery has been called on the answer of answerQuery(gamma).
Changed == pc = "changed"

\* The call passed the validation: no exception was thrown.
Validated == Changed /\ validation(args.v, args.tdpchg, ADMSTC, SIZE, TDP, ANS) = "none"

\* The cluster of ANS that holds the voxel of the call.
Chosen == CHOOSE i \in 1..Len(ANS) : args.v \in Range(ANS[i])

\* The positions of CHG whose cluster holds every node of the chosen cluster and more.
Grown == {i \in 1..Len(ret.CHG) : /\ Range(ANS[Chosen]) \subseteq Range(ret.CHG[i])
                                  /\ Range(ANS[Chosen]) # Range(ret.CHG[i])}

Covered(list) == UNION {Range(list[i]) : i \in 1..Len(list)}

PairwiseDisjoint(list) ==
    \A i, j \in 1..Len(list) : i # j => Range(list[i]) \cap Range(list[j]) = {}

\* C15: a grow call (-1 < delta < 0) that passes the validation returns one cluster D
\* that is a strict superset of the chosen cluster C with tdp[rep(D)] <= t + delta,
\* and besides D exactly the other clusters of ANS that are not subsets of D,
\* unchanged; the result is pairwise disjoint and covers every voxel of ANS.
C15_GrowReplaces ==
    Validated /\ args.tdpchg < 0 =>
        /\ ret.kind = "list"
        /\ Cardinality(Grown) = 1
        /\ \A d \in Grown :
             /\ TDP[Rep(ret.CHG[d])] <= TDP[Rep(ANS[Chosen])] + args.tdpchg
             /\ \A j \in 1..Len(ANS) :
                  j # Chosen =>
                      Cardinality({i \in 1..Len(ret.CHG) : i # d /\ ret.CHG[i] = ANS[j]}) =
                          IF Range(ANS[j]) \subseteq Range(ret.CHG[d]) THEN 0 ELSE 1
             /\ \A i \in 1..Len(ret.CHG) : i # d => \E j \in 1..Len(ANS) : j # Chosen /\ ret.CHG[i] = ANS[j]
        /\ PairwiseDisjoint(ret.CHG)
        /\ Covered(ANS) \subseteq Covered(ret.CHG)

\* The grow call returns: it reads nothing outside DESC.
GrowReturns == Validated /\ args.tdpchg < 0 => ret.kind = "list"

\* The grow call that returns a list returns one that is not empty.
GrowFindsCandidate == Validated /\ args.tdpchg < 0 /\ ret.kind = "list" => ret.CHG # <<>>

\* The grow call that returns a cluster returns what C15 states.
GrowCorrectWhenFound ==
    Validated /\ args.tdpchg < 0 /\ ret.kind = "list" /\ ret.CHG # <<>> =>
        /\ Cardinality(Grown) = 1
        /\ \A d \in Grown :
             /\ TDP[Rep(ret.CHG[d])] <= TDP[Rep(ANS[Chosen])] + args.tdpchg
             /\ \A j \in 1..Len(ANS) :
                  j # Chosen =>
                      Cardinality({i \in 1..Len(ret.CHG) : i # d /\ ret.CHG[i] = ANS[j]}) =
                          IF Range(ANS[j]) \subseteq Range(ret.CHG[d]) THEN 0 ELSE 1
        /\ PairwiseDisjoint(ret.CHG)
        /\ Covered(ANS) \subseteq Covered(ret.CHG)


\* The grow call returned a larger cluster and dropped a cluster of ANS that lies in it.
C15_Witness ==
    /\ Validated /\ args.tdpchg < 0 /\ ret.kind = "list"
    /\ Cardinality(Grown) = 1
    /\ Len(ret.CHG) < Len(ANS)

\* The clusters of ANS other than the chosen one appear in CHG, each once, as they were.
OthersUnchanged ==
    \A j \in 1..Len(ANS) :
        j # Chosen => Cardinality({i \in 1..Len(ret.CHG) : ret.CHG[i] = ANS[j]}) = 1

\* cluster is a strict subset of the chosen cluster whose representative reaches t + delta.
Shrunk(cluster) ==
    /\ Range(cluster) \subseteq Range(ANS[Chosen])
    /\ Range(cluster) # Range(ANS[Chosen])
    /\ TDP[Rep(cluster)] >= TDP[Rep(ANS[Chosen])] + args.tdpchg

\* C16 as stated: a shrink call (0 < delta < 1) that passes the validation returns a
\* list in which the cluster that holds v is a strict subset of the chosen cluster C
\* with tdp[rep] >= t + delta, and every other cluster of ANS appears unchanged.
C16_ShrinkKeepsVoxel ==
    Validated /\ args.tdpchg > 0 =>
        /\ ret.kind = "list"
        /\ \E i \in 1..Len(ret.CHG) : args.v \in Range(ret.CHG[i]) /\ Shrunk(ret.CHG[i])
        /\ OthersUnchanged

\* C16 as amended: a shrink call that passes the validation returns a list in which
\* every cluster that is not another cluster of ANS is a strict subset of C with
\* tdp[rep] >= t + delta, these subsets are pairwise disjoint (so v lies in at most
\* one of them), and every other cluster of ANS appears unchanged.
C16_ShrinkSplits ==
    Validated /\ args.tdpchg > 0 =>
        /\ ret.kind = "list"
        /\ \A i \in 1..Len(ret.CHG) :
             \/ \E j \in 1..Len(ANS) : j # Chosen /\ ret.CHG[i] = ANS[j]
             \/ Shrunk(ret.CHG[i])
        /\ PairwiseDisjoint(ret.CHG)
        /\ OthersUnchanged

\* A shrink call returned a strict subset of C that holds v next to another cluster of ANS.
C16_Witness ==
    /\ Validated /\ args.tdpchg > 0
    /\ Len(ANS) >= 2
    /\ \E i \in 1..Len(ret.CHG) : args.v \in Range(ret.CHG[i]) /\ Shrunk(ret.CHG[i])

\* The tdp of the representative of the chosen cluster, of the first and of the last
\* entry of ADMSTC.
CurTDP == TDP[Rep(ANS[Chosen])]

MinTDP == TDP[ADMSTC[1]]

MaxTDP == TDP[ADMSTC[Len(ADMSTC)]]

InNoCluster == \A i \in 1..Len(ANS) : args.v \notin Range(ANS[i])

\* C17: changeQuery throws when v lies in no cluster of ANS; when delta <= -1,
\* delta = 0 or delta >= 1; when delta < 0 and the tdp of the chosen cluster equals
\* tdp[admstc[0]] or tdp[admstc[0]] - tdp > delta; when delta > 0 and the tdp equals
\* tdp[admstc[last]] or tdp[admstc[last]] - tdp < delta.
C17_ValidationErrors ==
    Changed =>
        /\ InNoCluster => ret.kind = "error"
        /\ (args.tdpchg <= -Scale \/ args.tdpchg = 0 \/ args.tdpchg >= Scale) => ret.kind = "error"
        /\ (~InNoCluster /\ args.tdpchg < 0 /\ (CurTDP = MinTDP \/ MinTDP - CurTDP > args.tdpchg))
               => ret.kind = "error"
        /\ (~InNoCluster /\ args.tdpchg > 0 /\ (CurTDP = MaxTDP \/ MaxTDP - CurTDP < args.tdpchg))
               => ret.kind = "error"

\* A change inside (-1, 1) of a cluster that is not at an end of the range of tdp was
\* refused because it exceeds what that range allows.
C17_Witness ==
    /\ Changed /\ ~InNoCluster
    /\ args.tdpchg > -Scale /\ args.tdpchg < Scale /\ args.tdpchg # 0
    /\ CurTDP # MinTDP /\ CurTDP # MaxTDP
    /\ ret.kind = "error"

\* C18: changeQuery entered with MARK all zero leaves MARK all zero on every exit:
\* every exception, the grow return with a larger cluster, the grow return without
\* one, and the shrink return.
C18_MarksCleared ==
    Changed /\ ret.kind \in {"error", "list"} => MARK = ZeroMark

\* The four exits: an exception; a grow return that marked another cluster with 2;
\* a grow return without a candidate; a shrink return that marked a subset with 2.
C18_Witness ==
    /\ Changed /\ ret.kind = "list" /\ MARK = ZeroMark
    /\ args.tdpchg > 0
    /\ \E i \in 1..Len(ret.CHG) : Shrunk(ret.CHG[i])

C18_GrowExits ==
    /\ Changed /\ ret.kind = "list" /\ MARK = ZeroMark
    /\ args.tdpchg < 0
    /\ Len(ANS) >= 2 /\ ret.CHG # <<>>

\* ---------------------------------------------------------------- properties of findLMS
LMSDone == pc = "lms"

\* C19 as stated: the nodes of findLMS that occur in ADMSTC are exactly the nodes
\* without children whose tdp is not -1.
C19_LeavesWithValidTDP ==
    LMSDone => Range(ret) \cap Range(ADMSTC) = {v \in Nodes : CHILD[v] = <<>> /\ TDP[v] # Invalid}

\* C19 as amended: the nodes of findLMS that occur in ADMSTC are exactly the nodes
\* without children whose tdp is above -1 and above the tdp of every proper ancestor.
C19_AdmissibleLeaves ==
    LMSDone => Range(ret) \cap Range(ADMSTC) = {v \in Nodes : CHILD[v] = <<>> /\ Admissible(v)}

\* findLMS returned a leaf that is in ADMSTC and a leaf with a tdp above -1 that is not.
C19_Witness ==
    /\ LMSDone
    /\ \E v \in Range(ret) : v \in Range(ADMSTC)
    /\ \E v \in Range(ret) : v \notin Range(ADMSTC) /\ TDP[v] # Invalid


\* ---------------------------------------------------------------- properties of forestTDP, continued
\* C21: the heavy paths that forestTDP walks, one from every forest root and one from
\* every non-first child, partition the nodes: forestTDP assigns tdp[v] exactly once
\* for every node v.
C21_EachNodeOnce ==
    pc \in {"tdp", "ready"} => \A v \in Nodes : ret.writes[v] = 1

\* forestTDP walked the heavy path of a root, which passes through a first child,
\* and the heavy path of a non-first child.
C21_Witness ==
    /\ pc = "tdp"
    /\ \A v \in Nodes : ret.writes[v] = 1
    /\ Cardinality(PathStarts) >= 2
    /\ \E u \in Nodes : Len(CHILD[u]) >= 2
    /\ \E v \in Nodes : v \notin PathStarts


\* ---------------------------------------------------------------- the disjoint-set specification
\* The disjoint sets as findClusters sets them up: every node its own set and its own
\* forest root, of size 1. ret holds st = [PARENT, FORESTROOT, SIZE].
InitUnion ==
    /\ pc = "union"
    /\ m \in 1..MaxN
    /\ ret = [PARENT |-> [v \in 0..m-1 |-> v], FORESTROOT |-> [v \in 0..m-1 |-> v],
              SIZE |-> [v \in 0..m-1 |-> 1]]
    /\ args = NoArgs
    /\ ADJ = Nil /\ ORD = Nil /\ RANK = Nil /\ P = Nil /\ hom = Nil
    /\ SIZE = Nil /\ ROOT = Nil /\ CHILD = Nil /\ TDP = Nil /\ ADMSTC = Nil
    /\ MARK = Nil /\ ANS = Nil

\* A call UnionBySize(i, j); args keeps the call and the sets it was made on.
UnionStep ==
    /\ pc = "union"
    /\ \E i, j \in Nodes :
         /\ ret' = UnionBySize(i, j, ret)
         /\ args' = [op |-> "UnionBySize", i |-> i, j |-> j, before |-> ret]
    /\ UNCHANGED <<pc, m, ADJ, ORD, RANK, P, hom, SIZE, ROOT, CHILD, TDP, ADMSTC, MARK, ANS>>

NextUnion == UnionStep

SpecUnion == InitUnion /\ [][NextUnion]_vars

\* The representative of x in st, without path compression.
RECURSIVE RepOf(_, _)
RepOf(x, parent) == IF parent[x] = x THEN x ELSE RepOf(parent[x], parent)

RootOf(x, st) == st.FORESTROOT[RepOf(x, st.PARENT)]

\* The last call merged two different sets.
Merged == args.op = "UnionBySize" /\ RepOf(args.i, args.before.PARENT) # RepOf(args.j, args.before.PARENT)

\* C22 as stated: after UnionBySize(i, j) on two different sets the forest root of
\* the merged set is the former forest root of the side with the larger size, the
\* size being read at the forest root; with equal sizes it is that of i's side.
C22_RootOfLargerSide ==
    Merged =>
        LET iroot == RootOf(args.i, args.before)
            jroot == RootOf(args.j, args.before)
        IN RootOf(args.i, ret) =
               IF args.before.SIZE[iroot] < args.before.SIZE[jroot] THEN jroot ELSE iroot

\* C22 as amended: after UnionBySize(i, j) on two different sets the forest root of
\* the merged set is the former forest root of i's side, whatever the sizes; the
\* representative is that of the side with the larger size (of i's side when equal),
\* and the size at the forest root is the sum of the two sizes.
C22_RootOfFirstSide ==
    Merged =>
        LET iroot == RootOf(args.i, args.before)
            jroot == RootOf(args.j, args.before)
            irep == RepOf(args.i, args.before.PARENT)
            jrep == RepOf(args.j, args.before.PARENT)
        IN /\ RootOf(args.i, ret) = iroot
           /\ RootOf(args.j, ret) = iroot
           /\ RepOf(args.i, ret.PARENT) =
                  IF args.before.SIZE[iroot] < args.before.SIZE[jroot] THEN jrep ELSE irep
           /\ ret.SIZE[iroot] = args.before.SIZE[iroot] + args.before.SIZE[jroot]

\* A set was merged into a larger one and gave the union its forest root.
C22_Witness ==
    /\ Merged
    /\ args.before.SIZE[RootOf(args.i, args.before)] < args.before.SIZE[RootOf(args.j, args.before)]
    /\ RootOf(args.j, ret) = RootOf(args.i, args.before)
    /\ RootOf(args.j, ret) # RepOf(args.j, ret.PARENT)


\* ---------------------------------------------------------------- properties of findhull
StrictlyIncreasing(s) == \A i \in 1..Len(s) - 1 : s[i] < s[i + 1]

\* C23: for every non-decreasing p of length m >= 2, findhull returns a strictly
\* increasing list of indices whose first element is 0 and whose last element is m-1.
C23_HullAnchored ==
    pc = "hullDone" /\ m >= 2 =>
        /\ ret # <<>>
        /\ StrictlyIncreasing(ret)
        /\ ret[1] = 0
        /\ ret[Len(ret)] = m - 1

\* What findhull does return for m >= 2: a strictly increasing list that ends with
\* m-1 and never holds index 0.
HullWithoutFirstIndex ==
    pc = "hullDone" /\ m >= 2 =>
        /\ ret # <<>>
        /\ StrictlyIncreasing(ret)
        /\ ret[1] > 0
        /\ ret[Len(ret)] = m - 1


\* ---------------------------------------------------------------- properties of findDiscoveries, continued
\* The categories of the indices of the call and the tightened bound maxcat.
Cats == [i \in 1..Len(args.idx) |-> getCategory(P[args.idx[i]], hom, m)]

MaxCat == tightenedMaxCat(Cats, P, hom, Len(args.idx), m)

\* The number of the first j entries whose category is at most c.
CountUpTo(j, c) == Cardinality({i \in 1..j : Cats[i] <= c})

\* C24 as stated: whenever the tightened bound maxcat is <= 0, maxcat = 0 included,
\* every entry of the result of findDiscoveries is 0.
C24_NoDiscoveryAtZero ==
    pc = "discDone" /\ MaxCat <= 0 => \A j \in 1..Len(ret) : ret[j] = 0

\* C24 as amended: whenever the tightened bound maxcat is < 0 every entry of the
\* result is 0; when maxcat = 0, entry j is the number of i <= j with category 0.
C24_NoDiscoveryBelowZero ==
    pc = "discDone" =>
        /\ MaxCat < 0 => \A j \in 1..Len(ret) : ret[j] = 0
        /\ MaxCat = 0 => \A j \in 1..Len(ret) : ret[j] = CountUpTo(j, 0)

\* A call with maxcat = 0 whose first entry has a larger category and which counts a
\* later entry of category 0.
C24_Witness ==
    /\ pc = "discDone"
    /\ MaxCat = 0
    /\ Len(ret) >= 2
    /\ ret[1] = 0
    /\ ret[Len(ret)] >= 1

\* A call with maxcat = -1 among whose entries is one of category 0.
NoDiscoveryBelowZeroHappens ==
    /\ pc = "discDone"
    /\ MaxCat < 0
    /\ \E j \in 1..Len(ret) : Cats[j] = 0


\* ---------------------------------------------------------------- findIndex on its own
\* The tdp values of the calls of findIndex: ties are frequent among three levels.
IndexTDPLevels == {0, Scale \div 2, Scale}

\* The cluster lists over n nodes without duplicates, ordered by tdp; entries of the
\* same tdp stand in any order.
IndexLists(n, tdp) ==
    {adm \in UNION {[1..l -> 0..n-1] : l \in 0..n} :
        /\ \A a, b \in 1..Len(adm) : a # b => adm[a] # adm[b]
        /\ \A a \in 1..Len(adm) - 1 : tdp[adm[a]] <= tdp[adm[a + 1]]}

InitIndex ==
    /\ pc = "index"
    /\ m \in 1..MaxM
    /\ TDP \in [0..m-1 -> IndexTDPLevels]
    /\ ADMSTC \in IndexLists(m, TDP)
    /\ \E r \in 0..m-1 : args = [op |-> "findIndex", irep |-> r]
    /\ ADJ = Nil /\ ORD = Nil /\ RANK = Nil /\ P = Nil /\ hom = Nil
    /\ SIZE = Nil /\ ROOT = Nil /\ CHILD = Nil /\ MARK = Nil /\ ANS = Nil /\ ret = Nil

FindIndex ==
    /\ pc = "index"
    /\ ret' = findIndex(args.irep, ADMSTC, TDP)
    /\ pc' = "indexDone"
    /\ UNCHANGED <<m, ADJ, ORD, RANK, P, hom, SIZE, ROOT, CHILD, TDP, ADMSTC, MARK, ANS, args>>

NextIndex == FindIndex

SpecIndex == InitIndex /\ [][NextIndex]_vars

\* The node of the call occurs in the list.
Occurs == \E a \in 1..Len(ADMSTC) : ADMSTC[a] = args.irep

\* Some entry of the list other than the node of the call has the tdp of that node.
TiedWithOther == \E a \in 1..Len(ADMSTC) : ADMSTC[a] # args.irep /\ TDP[ADMSTC[a]] = TDP[args.irep]

\* C25: for every list ordered by tdp without duplicates and every node r, findIndex
\* returns an index i with ADMSTC[i] = r when r occurs in the list and -1 when it does
\* not, also when several entries have the tdp of r.
C25_IndexOfNode ==
    pc = "indexDone" =>
        /\ Occurs => ret \in 0..Len(ADMSTC) - 1 /\ At(ADMSTC, ret) = args.irep
        /\ ~Occurs => ret = -1

\* What findIndex returns in every case: the index of an entry with the tdp of r, and
\* -1 exactly when no entry has that tdp; it is the index of r when r occurs and no
\* other entry is tied with it.
IndexOfEqualTDP ==
    pc = "indexDone" =>
        /\ ret \in -1..Len(ADMSTC) - 1
        /\ ret >= 0 => TDP[At(ADMSTC, ret)] = TDP[args.irep]
        /\ ret = -1 <=> ~\E a \in 1..Len(ADMSTC) : TDP[ADMSTC[a]] = TDP[args.irep]
        /\ Occurs /\ ~TiedWithOther => At(ADMSTC, ret) = args.irep


\* ---------------------------------------------------------------- the divisions of findalpha
\* The main loop of findalpha again, keeping for each assignment of alpha[i] the hull
\* index k and the divisor hull[k] - n + i + 1 in place of the quotient.
RECURSIVE AlphaSteps(_, _, _, _, _, _)
AlphaSteps(i, k, n, p, hull, steps) ==
    IF i >= n THEN steps
    ELSE LET Dk == p[At(hull, k - 1)] * (At(hull, k) - n + i + 1) -
                   p[At(hull, k)] * (At(hull, k - 1) - n + i + 1)
         IN IF k > 0 /\ Dk < 0
            THEN AlphaSteps(i, k - 1, n, p, hull, steps)
            ELSE AlphaSteps(i + 1, k, n, p, hull,
                     Append(steps, [k |-> k, divisor |-> At(hull, k) - n + i + 1]))

\* The assignments of the call of findalpha of this state.
Steps == AlphaSteps(0, Len(findhull(m, P)) - 1, m, P, findhull(m, P), <<>>)

\* C26: each time findalpha assigns alpha[i], the hull index k satisfies
\* 0 <= k < |hull| and the divisor hull[k] - m + i + 1 is at least 1, so that
\* no division is by zero, at i = 0 and for m = 1 too.
C26_DivisorAtLeastOne ==
    pc = "alphaDone" =>
        \A i \in 1..Len(Steps) :
            /\ Steps[i].k \in 0..Len(findhull(m, P)) - 1
            /\ Steps[i].divisor >= 1

\* What holds: every p-value gets its assignment with a hull index in range, the
\* first divisor is 0 and every later one is at least 1.
FirstDivisorZero ==
    pc = "alphaDone" =>
        /\ Len(Steps) = m
        /\ \A i \in 1..m : Steps[i].k \in 0..Len(findhull(m, P)) - 1
        /\ Steps[1].divisor = 0
        /\ \A i \in 2..m : Steps[i].divisor >= 1


\* ---------------------------------------------------------------- the direct count of discoveries
\* findDiscoveries on one more p-value than SpecDisc, for index vectors without
\* repetition (the indices of the voxels of a cluster).
InitCount ==
    /\ pc = "disc"
    /\ m \in 1..MaxM + 1
    /\ P \in {p \in [0..m-1 -> DiscPLevels] : \A i \in 0..m-2 : p[i] <= p[i + 1]}
    /\ hom \in DiscParams(m)
    /\ \E k \in 0..m : \E idx \in [1..k -> 0..m-1] :
          /\ \A a, b \in 1..k : a # b => idx[a] # idx[b]
          /\ args = [op |-> "findDiscoveries", idx |-> idx]
    /\ ADJ = Nil /\ ORD = Nil /\ RANK = Nil
    /\ SIZE = Nil /\ ROOT = Nil /\ CHILD = Nil
    /\ TDP = Nil /\ ADMSTC = Nil /\ MARK = Nil /\ ANS = Nil /\ ret = Nil

SpecCount == InitCount /\ [][NextDisc]_vars

\* The bound min(z - m + h, k) before it is tightened by the categories.
UntightenedMaxCat == Min(findConcentration(P, hom, m) - m + hom.h, Len(args.idx))

Largest(S) == CHOOSE x \in S : \A y \in S : y <= x

\* The largest of 0 and, over c in 0..M, of the number of i <= j with cats[i] <= c, less c.
DirectCount(j) == Largest({0} \cup {CountUpTo(j, c) - c : c \in 0..UntightenedMaxCat})

\* C27: the union-find pass of findDiscoveries computes the direct count: with M the
\* untightened bound min(z - m + h, k), disc[j] is the largest of 0 and, over c in
\* 0..M, of the number of i <= j with cats[i] <= c, less c; the tightening of M by
\* the early-terminated suffix maximum changes no disc[j].
C27_DirectCount ==
    pc = "discDone" =>
        /\ Len(ret) = Len(args.idx)
        /\ \A j \in 1..Len(ret) : ret[j] = DirectCount(j)

\* A call in which categories are merged in the union-find and the count is
\* reached at a category above 0.
C27_Witness ==
    /\ pc = "discDone"
    /\ Len(ret) >= 3
    /\ MaxCat >= 1
    /\ ret[Len(ret)] >= 1
    /\ CountUpTo(Len(ret), 0) < ret[Len(ret)]

\* A call in which the suffix maximum of the categories tightens the bound.
TightenedHappens ==
    /\ pc = "discDone"
    /\ Len(ret) >= 1
    /\ MaxCat < UntightenedMaxCat


\* ---------------------------------------------------------------- the one-based Hommel core
\* The category of the one-based original, from 1.
getCategory_one_based(p, hp, n) ==
    IF p = 0 \/ hp.sN = 0 THEN 1
    ELSE IF hp.alphaN = 0 THEN n + 1
    ELSE CeilDiv(hp.sN * p, hp.sD * hp.alphaN)

\* allp is the same vector; p[z-1] of the source is its entry z - 1.
RECURSIVE ConcLoop_one_based(_, _, _, _)
ConcLoop_one_based(z, allp, hp, n) ==
    IF z < n /\ hp.sN * allp[z - 1] > (z - n + hp.h + 1) * hp.alphaN * hp.sD
    THEN ConcLoop_one_based(z + 1, allp, hp, n)
    ELSE z

findConcentration_one_based(allp, hp, n) ==
    LET z == n - hp.h
    IN IF z > 0 THEN ConcLoop_one_based(z, allp, hp, n) ELSE z

\* disc is the vector discoveries[1..] built so far; discoveries[0] is 0.
DiscStep_one_based(i, cats, maxcat, c) ==
    LET prev == IF i = 0 THEN 0 ELSE c.disc[i]
    IN IF At(cats, i) <= maxcat
       THEN LET f == Find(At(cats, i), c.u.parent)
                u1 == [c.u EXCEPT !.parent = f.parent]
                lowestInPi == u1.lowest[f.rep]
            IN IF lowestInPi = 1
               THEN [u |-> u1, disc |-> Append(c.disc, prev + 1)]
               ELSE [u |-> Union(lowestInPi - 1, f.rep, u1), disc |-> Append(c.disc, prev)]
       ELSE [u |-> c.u, disc |-> Append(c.disc, prev)]

RECURSIVE DiscLoop_one_based(_, _, _, _, _)
DiscLoop_one_based(i, k, cats, maxcat, c) ==
    IF i >= k THEN c.disc
    ELSE DiscLoop_one_based(i + 1, k, cats, maxcat, DiscStep_one_based(i, cats, maxcat, c))

\* Returns the vector of length k + 1 whose first entry is 0; idx holds the indices from 1.
findDiscoveries_one_based(idx, allp, hp, k, n) ==
    LET cats == [i \in 1..k |-> getCategory_one_based(allp[idx[i] - 1], hp, n)]
        z == findConcentration_one_based(allp, hp, n)
        maxcat0 == Min(z - n + hp.h + 1, k)
        maxcat == Min(maxcat0, MaxCatLoop(k - 1, cats, 0, maxcat0))
        u0 == [parent |-> [i \in 0..maxcat |-> i],
               lowest |-> [i \in 0..maxcat |-> i],
               rank |-> [i \in 0..maxcat |-> 0]]
    IN <<0>> \o DiscLoop_one_based(0, k, cats, maxcat, [u |-> u0, disc |-> <<>>])

\* The one-based call that corresponds to the call of this state.
OneBased ==
    findDiscoveries_one_based([i \in 1..Len(args.idx) |-> args.idx[i] + 1], P, hom, Len(args.idx), m)

\* The two concentrations and the two categories differ by one.
HelpersAgree ==
    pc = "discDone" =>
        /\ findConcentration(P, hom, m) = findConcentration_one_based(P, hom, m) - 1
        /\ \A i \in 0..m-1 : getCategory(P[i], hom, m) = getCategory_one_based(P[i], hom, m) - 1

\* C28: the zero-based and the one-based Hommel cores agree: entry j of the zero-based
\* findDiscoveries(idx) is entry j + 1 of findDiscoveries_one_based(idx + 1) for
\* 0 <= j < k, the concentrations and the categories differing by one.
C28_CoresAgree ==
    pc = "discDone" =>
        /\ HelpersAgree
        /\ Len(OneBased) = Len(ret) + 1
        /\ \A j \in 0..Len(ret) - 1 : At(ret, j) = At(OneBased, j + 1)

\* What holds between the two: the zero-based count is never above the one-based.
ZeroBasedBelowOneBased ==
    pc = "discDone" =>
        /\ Len(OneBased) = Len(ret) + 1
        /\ \A j \in 0..Len(ret) - 1 : At(ret, j) <= At(OneBased, j + 1)


\* ---------------------------------------------------------------- the reads of NUM in heavyPathTDP
\* The nodes of the heavy path from s whose TDP is computed from NUM: a root, or a
\* p-value other than the parent's.
NUMReaders(s) == {v \in HeavyPath(s) : IsRoot(v) \/ P[v] # P[ParentOf(v)]}

\* The vector NUM of the call of heavyPathTDP that starts at s.
NUMOf(s) ==
    LET HP == descendants(s, SIZE, CHILD)
    IN findDiscoveries(HP, P, hom, Len(HP), m)

\* C29: every read NUM[SIZE[v]] of heavyPathTDP is at an index smaller than the
\* length of NUM, NUM being the zero-based result of findDiscoveries of length
\* k = SIZE[s].
C29_ReadsInsideNUM ==
    pc \in {"tdp", "ready"} =>
        \A s \in PathStarts : \A v \in NUMReaders(s) : InBounds(NUMOf(s), SIZE[v])

\* What holds: NUM has SIZE[s] entries, the start of a path reads the entry just past
\* the end when it reads, and every other node of the path reads inside NUM.
OnlyStartReadsPastEnd ==
    pc \in {"tdp", "ready"} =>
        \A s \in PathStarts :
            /\ Len(NUMOf(s)) = SIZE[s]
            /\ \A v \in NUMReaders(s) :
                  IF v = s THEN SIZE[v] = Len(NUMOf(s)) ELSE InBounds(NUMOf(s), SIZE[v])


\* ---------------------------------------------------------------- the containment scan of the grow branch
\* C30: in the grow branch of changeQuery the two-pointer containment scan reads DESC
\* only at indices in 0..|DESC|-1 and terminates, for every cluster CL of ANS, those
\* of size 1 or 2 that are not contained in DESC included. A scan that leaves DESC
\* ends the call with kind = "fault" under one of the outcomes of the read.
C30_ScanInsideDESC ==
    Changed /\ args.tdpchg < 0 => ret.kind # "fault"
====
